---- MODULE Spec2Model ----
(***************************************************************************)
(* Model of galaxy_ng/app/dynaconf_hooks.py: the dynaconf post hook `post` *)
(* (an ordered pipeline of configuration hooks accumulating a dict), the   *)
(* validators it registers, and the two after-get override hooks           *)
(* (read_settings_from_cache_or_db, alter_hostname_settings).              *)
(*                                                                         *)
(* Python objects are modelled explicitly: a list is an address in `heap`, *)
(* so that two names bound to one list (settings value and hook result)    *)
(* see each other's in-place mutations as they do in the program.          *)
(***************************************************************************)
EXTENDS Integers, Sequences, FiniteSets, TLC

VARIABLES
    settings,      \* the Dynaconf object handed to post: key -> value
    heap,          \* list objects: address -> sequence of items
    data,          \* post's accumulating dict: key -> value
    pc,            \* the stage post is about to run, or "returned" / "raised"
    result,        \* what post handed back to its caller
    error,         \* the exception that ended post, NoError when none
    seen,          \* AUTHENTICATION_BACKENDS as each hook read it: hook -> sequence
    ran,           \* the stages run so far, in order
    classes_in,    \* the class list configure_authentication_classes started from
    params,        \* post's arguments run_dynamic, run_validate
    env,           \* process environment and collaborators' outcomes
    first_result,  \* what an earlier pass of post on the same settings returned
    apps_ready,    \* django.apps.apps.ready
    DYNAMIC_SETTINGS_SCHEMA,  \* keys of the mapping imported at line 34
    hooks,         \* after-get hooks registered on the settings object
    store,         \* the published static settings the override hooks read
    cache,         \* settings cache: sequence of <<key, value>> pairs
    db,            \* settings table: sequence of <<key, value>> pairs
    request,       \* crum's current request, or NoRequest
    last,          \* outcome of the latest settings.get through the hooks
    threads        \* per worker thread: its current request and its read in flight

postVars == <<settings, heap, data, pc, result, error, seen, ran, classes_in, params, env, first_result>>
readVars == <<apps_ready, DYNAMIC_SETTINGS_SCHEMA, hooks, store, cache, db, request, last, threads>>
vars == <<settings, heap, data, pc, result, error, seen, ran, classes_in, params, env, first_result,
          apps_ready, DYNAMIC_SETTINGS_SCHEMA, hooks, store, cache, db, request, last, threads>>

----------------------------------------------------------------------------
(* Values.  Every value is a record whose field name tells its Python type, *)
(* so that values of different types can be compared.                       *)

None == [none |-> TRUE]
Ref(a) == [ref |-> a]
Bool(b) == [b |-> b]
Str(s) == [s |-> s]
Obj(o) == [obj |-> o]

IsRef(x) == DOMAIN x = {"ref"}

\* dict.get(key, default) / settings.get(key, default)
Get(d, k, default) == IF k \in DOMAIN d THEN d[k] ELSE default

\* Python truthiness of a scalar value
Truthy(x) == x # None /\ x # Bool(FALSE) /\ x # Str("")

\* dict.update(other): keys of other replace keys of d
Update(d, other) == other @@ d

EmptyDict == [k \in {} |-> None]

----------------------------------------------------------------------------
(* Python list operations on sequences.                                    *)

Contains(seq, x) == \E i \in DOMAIN seq : seq[i] = x

Count(seq, x) == Cardinality({i \in DOMAIN seq : seq[i] = x})

\* list.insert(0, x)
Insert0(seq, x) == <<x>> \o seq

\* index of the first occurrence of x (x occurs in seq)
FirstIndex(seq, x) == CHOOSE i \in DOMAIN seq : seq[i] = x /\ \A j \in 1..(i - 1) : seq[j] # x

\* list.remove(x): drops the first occurrence only
Remove(seq, x) ==
    LET i == FirstIndex(seq, x)
    IN  SubSeq(seq, 1, i - 1) \o SubSeq(seq, i + 1, Len(seq))

\* [item for item in seq if item != x]
Without(seq, x) == LET keep(item) == item # x IN SelectSeq(seq, keep)

\* base.extend(items)
ExtendAll(base, items) == base \o items

\* base.extend([item for item in items if item not in base])
ExtendMissing(base, items) ==
    LET missing(item) == ~Contains(base, item) IN base \o SelectSeq(items, missing)

----------------------------------------------------------------------------
(* Names used by the hooks.                                                *)

galaxy_session == "galaxy_ng.app.auth.session.SessionAuthentication"
TokenAuthentication == "rest_framework.authentication.TokenAuthentication"
BasicAuthentication == "rest_framework.authentication.BasicAuthentication"
ExpiringTokenAuthentication == "galaxy_ng.app.auth.token.ExpiringTokenAuthentication"
KeycloakBasicAuth == "galaxy_ng.app.auth.keycloak.KeycloakBasicAuth"

KeycloakOAuth2 == "social_core.backends.keycloak.KeycloakOAuth2"
GalaxyNGOAuth2 == "galaxy_ng.social.GalaxyNGOAuth2"
prefix_backend == "ansible_base.lib.backends.prefixed_user_auth.PrefixedUserAuthBackend"
ModelBackend == "django.contrib.auth.backends.ModelBackend"

dynaconf_merge == "dynaconf_merge"
dynaconf_merge_unique == "dynaconf_merge_unique"

jwt_consumer == "ansible_base.jwt_consumer"
CustomBrowsableAPIRenderer == "galaxy_ng.app.renderers.CustomBrowsableAPIRenderer"

\* what a hook hands back: its partial dict, the heap after its in-place
\* mutations, and the exception it raised (NoError when it returned)
NoError == ""
HookResult(ret, h, raised) == [ret |-> ret, heap |-> h, raised |-> raised]

----------------------------------------------------------------------------
(* configure_ldap.  The LDAP objects it builds are opaque; the model keeps  *)
(* the flag the hook publishes and the load of the group type class, which  *)
(* raises when the class path cannot be imported.                           *)

LdapKeys == {"AUTH_LDAP_SERVER_URI", "AUTH_LDAP_BIND_DN", "AUTH_LDAP_BIND_PASSWORD",
             "AUTH_LDAP_USER_SEARCH_BASE_DN", "AUTH_LDAP_USER_SEARCH_SCOPE",
             "AUTH_LDAP_USER_SEARCH_FILTER", "AUTH_LDAP_GROUP_SEARCH_BASE_DN",
             "AUTH_LDAP_GROUP_SEARCH_SCOPE", "AUTH_LDAP_GROUP_SEARCH_FILTER"}

configure_ldap(s, h, e) ==
    IF \A k \in LdapKeys : Truthy(Get(s, k, None))
    THEN IF Truthy(Get(s, "AUTH_LDAP_GROUP_TYPE_CLASS", Str("django_auth_ldap.config:GroupOfNamesType")))
            /\ ~e.group_type_loads
         THEN HookResult(EmptyDict, h, "ModuleNotFoundError")
         ELSE HookResult("GALAXY_AUTH_LDAP_ENABLED" :> Bool(TRUE), h, NoError)
    ELSE HookResult(EmptyDict, h, NoError)

----------------------------------------------------------------------------
(* configure_logging                                                       *)

configure_logging(s, h, e) ==
    LET enabled == Get(s, "GALAXY_ENABLE_API_ACCESS_LOG", e.GALAXY_ENABLE_API_ACCESS_LOG)
    IN  IF Truthy(enabled)
        THEN HookResult(
                 ("GALAXY_ENABLE_API_ACCESS_LOG" :> enabled)
                 @@ ("INSTALLED_APPS" :> Ref("logging.INSTALLED_APPS"))
                 @@ ("MIDDLEWARE" :> Ref("logging.MIDDLEWARE")),
                 ("logging.INSTALLED_APPS" :>
                      <<"galaxy_ng._vendor.automated_logging", dynaconf_merge_unique>>)
                 @@ ("logging.MIDDLEWARE" :>
                      <<"automated_logging.middleware.AutomatedLoggingMiddleware", dynaconf_merge>>)
                 @@ h,
                 NoError)
        ELSE HookResult("GALAXY_ENABLE_API_ACCESS_LOG" :> enabled, h, NoError)

----------------------------------------------------------------------------
(* configure_keycloak                                                      *)

KeycloakKeys == {"SOCIAL_AUTH_KEYCLOAK_KEY", "SOCIAL_AUTH_KEYCLOAK_SECRET",
                 "SOCIAL_AUTH_KEYCLOAK_PUBLIC_KEY", "KEYCLOAK_HOST",
                 "KEYCLOAK_PORT", "KEYCLOAK_REALM"}

configure_keycloak(s, h) ==
    IF \A k \in KeycloakKeys : Truthy(Get(s, k, None))
    THEN HookResult(
             ("GALAXY_AUTH_KEYCLOAK_ENABLED" :> Bool(TRUE))
             @@ ("GALAXY_FEATURE_FLAGS__external_authentication" :> Bool(TRUE))
             @@ ("INSTALLED_APPS" :> Ref("keycloak.INSTALLED_APPS"))
             @@ ("AUTHENTICATION_BACKENDS" :> Ref("keycloak.AUTHENTICATION_BACKENDS")),
             ("keycloak.INSTALLED_APPS" :>
                  <<"automated_logging", "social_django", dynaconf_merge_unique>>)
             @@ ("keycloak.AUTHENTICATION_BACKENDS" :> <<KeycloakOAuth2, dynaconf_merge>>)
             @@ h,
             NoError)
    ELSE HookResult(EmptyDict, h, NoError)

----------------------------------------------------------------------------
(* configure_socialauth.  `backends` is the list object the settings hold   *)
(* (or a new empty list when the key is unset); the two appends mutate it   *)
(* in place and three keys of the partial are bound to that same object.    *)

DefaultClasses == <<galaxy_session, TokenAuthentication, BasicAuthentication>>

socialauth_backends(s) ==
    Get(s, "AUTHENTICATION_BACKENDS", Ref("socialauth.backends"))

configure_socialauth(s, h) ==
    IF Truthy(Get(s, "SOCIAL_AUTH_GITHUB_KEY", None))
       /\ Truthy(Get(s, "SOCIAL_AUTH_GITHUB_SECRET", None))
    THEN LET backends == socialauth_backends(s)
             before == IF backends.ref \in DOMAIN h THEN h[backends.ref] ELSE <<>>
         IN  HookResult(
                 ("INSTALLED_APPS" :> Ref("socialauth.INSTALLED_APPS"))
                 @@ ("GALAXY_FEATURE_FLAGS__external_authentication" :> Bool(TRUE))
                 @@ ("AUTHENTICATION_BACKENDS" :> backends)
                 @@ ("DEFAULT_AUTHENTICATION_BACKENDS" :> backends)
                 @@ ("GALAXY_AUTHENTICATION_BACKENDS" :> backends)
                 @@ ("DEFAULT_AUTHENTICATION_CLASSES" :> Ref("socialauth.DEFAULT_AUTHENTICATION_CLASSES"))
                 @@ ("GALAXY_AUTHENTICATION_CLASSES" :> Ref("socialauth.GALAXY_AUTHENTICATION_CLASSES"))
                 @@ ("REST_FRAMEWORK_AUTHENTICATION_CLASSES" :>
                         Ref("socialauth.REST_FRAMEWORK_AUTHENTICATION_CLASSES")),
                 (backends.ref :> (before \o <<GalaxyNGOAuth2, dynaconf_merge>>))
                 @@ ("socialauth.INSTALLED_APPS" :> <<"social_django", dynaconf_merge_unique>>)
                 @@ ("socialauth.DEFAULT_AUTHENTICATION_CLASSES" :> DefaultClasses)
                 @@ ("socialauth.GALAXY_AUTHENTICATION_CLASSES" :> DefaultClasses)
                 @@ ("socialauth.REST_FRAMEWORK_AUTHENTICATION_CLASSES" :> DefaultClasses)
                 @@ h,
                 NoError)
    ELSE HookResult(EmptyDict, h, NoError)

----------------------------------------------------------------------------
(* configure_cors: a new list, the CORS middleware followed by the items   *)
(* of the settings' MIDDLEWARE.                                            *)

AllowCorsMiddleware == "galaxy_ng.app.common.openapi.AllowCorsMiddleware"

ListOf(s, h, k) == IF k \in DOMAIN s /\ IsRef(s[k]) THEN h[s[k].ref] ELSE <<>>

configure_cors(s, h, e) ==
    IF e.DEV_SOURCE_PATH = None
    THEN HookResult(EmptyDict, h, NoError)
    ELSE IF Truthy(Get(s, "GALAXY_ENABLE_CORS", Bool(FALSE)))
         THEN HookResult("MIDDLEWARE" :> Ref("cors.MIDDLEWARE"),
                         ("cors.MIDDLEWARE" :> (<<AllowCorsMiddleware>> \o ListOf(s, h, "MIDDLEWARE")))
                         @@ h,
                         NoError)
         ELSE HookResult(EmptyDict, h, NoError)

----------------------------------------------------------------------------
(* configure_pulp_ansible                                                  *)

configure_pulp_ansible(s, h) ==
    HookResult(
        ("ANSIBLE_URL_NAMESPACE" :> Str("galaxy:api:v3:"))
        @@ ("ANSIBLE_DEFAULT_DISTRIBUTION_PATH" :>
                Get(s, "GALAXY_API_DEFAULT_DISTRIBUTION_BASE_PATH", Str("published"))),
        h, NoError)

----------------------------------------------------------------------------
(* configure_renderers.  re.search(r'galaxy(-dev|-stage)*.ansible.com', …)  *)
(* is decided here for the origins the model draws from.  The list that is *)
(* appended to is the settings' own list object.                           *)

CommunityOrigins == {"https://galaxy.ansible.com", "https://galaxy-dev.ansible.com",
                     "https://galaxy-stage.ansible.com"}

configure_renderers(s, h) ==
    IF Get(s, "CONTENT_ORIGIN", Str("")).s \in CommunityOrigins
    THEN LET value == Get(s, "REST_FRAMEWORK__DEFAULT_RENDERER_CLASSES", Ref("renderers.value"))
             before == IF value.ref \in DOMAIN h THEN h[value.ref] ELSE <<>>
         IN  HookResult("REST_FRAMEWORK__DEFAULT_RENDERER_CLASSES" :> value,
                        (value.ref :> Append(before, CustomBrowsableAPIRenderer)) @@ h,
                        NoError)
    ELSE HookResult(EmptyDict, h, NoError)

----------------------------------------------------------------------------
(* configure_password_validators.  The validators are dicts inside the     *)
(* settings' list; the loop writes min_length into them in place.  Reading *)
(* the attribute raises when the settings have no such key.                *)

DefaultMinimumPasswordLength == 9

Num(n) == [n |-> n]

MinimumLengthValidator == "django.contrib.auth.password_validation.MinimumLengthValidator"

configure_password_validators(s, h) ==
    IF "AUTH_PASSWORD_VALIDATORS" \notin DOMAIN s
    THEN HookResult(EmptyDict, h, "AttributeError")
    ELSE LET length == Get(s, "GALAXY_MINIMUM_PASSWORD_LENGTH", Num(DefaultMinimumPasswordLength)).n
             validators == s["AUTH_PASSWORD_VALIDATORS"]
             items == h[validators.ref]
             set(item) == IF item.NAME = MinimumLengthValidator
                          THEN [item EXCEPT !.min_length = length]
                          ELSE item
         IN  HookResult("AUTH_PASSWORD_VALIDATORS" :> validators,
                        (validators.ref :> [i \in DOMAIN items |-> set(items[i])]) @@ h,
                        NoError)

----------------------------------------------------------------------------
(* configure_api_base_path.  str.strip('/') for the prefixes the model     *)
(* draws from; an unset prefix is None and .strip raises AttributeError.   *)

StripSlashes(p) ==
    CASE p = "/api/galaxy/" -> "api/galaxy"
      [] p = "api/automation-hub" -> "api/automation-hub"
      [] OTHER -> p

configure_api_base_path(s, h) ==
    LET galaxy_api_root == Get(s, "GALAXY_API_PATH_PREFIX", None)
    IN  IF galaxy_api_root = None
        THEN HookResult(EmptyDict, h, "AttributeError")
        ELSE HookResult("API_ROOT" :> Str("/" \o StripSlashes(galaxy_api_root.s) \o "/pulp/"),
                        h, NoError)

----------------------------------------------------------------------------
(* configure_legacy_roles                                                  *)

configure_legacy_roles(s, h) ==
    HookResult("GALAXY_FEATURE_FLAGS__legacy_roles" :>
                   Get(s, "GALAXY_ENABLE_LEGACY_ROLES", Bool(FALSE)),
               h, NoError)

----------------------------------------------------------------------------
(* Dynaconf's handling of a list written over an existing list             *)
(* (Settings.update -> set -> _merge_before_set -> object_merge), as used  *)
(* by the secondary store of configure_dab_required_settings.              *)

\* object_merge(old, new, unique=True): the items of old are put in front of
\* new, last to first, skipping an item already in the growing list
RECURSIVE MergeUniqueInto(_, _)
MergeUniqueInto(old, new) ==
    IF old = <<>> THEN new
    ELSE LET item == old[Len(old)]
             rest == SubSeq(old, 1, Len(old) - 1)
         IN  IF Contains(new, item)
             THEN MergeUniqueInto(rest, new)
             ELSE MergeUniqueInto(rest, <<item>> \o new)

ObjectMerge(old, new, unique) ==
    IF old = new THEN new
    ELSE IF unique THEN MergeUniqueInto(old, new) ELSE old \o new

\* the value the store holds after set(key, value) when it held `existing`
SetList(existing, value) ==
    IF existing = value THEN value
    ELSE IF Contains(value, dynaconf_merge)
         THEN ObjectMerge(existing, Remove(value, dynaconf_merge), FALSE)
    ELSE IF Contains(value, dynaconf_merge_unique)
         THEN ObjectMerge(existing, Remove(value, dynaconf_merge_unique), TRUE)
    ELSE value

\* the key under which as_dict() reports a key given to update(): names are
\* upper-cased and a `__` path becomes a nested entry of its first segment
AsDictKey(k) ==
    CASE k = "dynaconf_merge" -> "DYNACONF_MERGE"
      [] k = "REST_FRAMEWORK__DEFAULT_RENDERER_CLASSES" -> "REST_FRAMEWORK.DEFAULT_RENDERER_CLASSES"
      [] k = "GALAXY_FEATURE_FLAGS__external_authentication" -> "GALAXY_FEATURE_FLAGS.external_authentication"
      [] k = "GALAXY_FEATURE_FLAGS__legacy_roles" -> "GALAXY_FEATURE_FLAGS.legacy_roles"
      [] OTHER -> k

----------------------------------------------------------------------------
(* configure_dab_required_settings.  A secondary store is filled with the  *)
(* settings' as_dict(), then with the accumulated data; jwt_consumer is     *)
(* merged into INSTALLED_APPS and filtered out again; the external          *)
(* validation may raise; the store's as_dict() (fresh copies of every list) *)
(* plus the store itself is returned.                                       *)

\* list held by the secondary store under key k after the two updates
DabList(s, d, h, k) ==
    LET fromSettings == IF k \in DOMAIN s THEN h[s[k].ref] ELSE <<>>
    IN  IF k \in DOMAIN d
        THEN IF k \in DOMAIN s THEN SetList(fromSettings, h[d[k].ref]) ELSE h[d[k].ref]
        ELSE fromSettings

\* INSTALLED_APPS of the secondary store with the entry injected and never removed
DabInstalledAppsInjected(apps) == ObjectMerge(apps, <<jwt_consumer>>, TRUE)

\* INSTALLED_APPS of the secondary store once "@merge_unique ansible_base.jwt_consumer"
\* has been set and the filtered list has been set over it
DabInstalledApps(apps) ==
    LET withJwt == ObjectMerge(apps, <<jwt_consumer>>, TRUE)
    IN  SetList(withJwt, Without(withJwt, jwt_consumer))

DabValue(s, d, h, k) ==
    IF IsRef(Get(d, k, Get(s, k, None)))
    THEN IF k = "AUTH_PASSWORD_VALIDATORS" THEN h[Get(d, k, Get(s, k, None)).ref]
         ELSE IF k = "INSTALLED_APPS" THEN DabInstalledApps(DabList(s, d, h, k))
         ELSE DabList(s, d, h, k)
    ELSE <<>>

\* the load metadata of a settings object: two lists, and two mappings kept
\* as the lists of their keys
LoadMetadata == {"_loaded_files", "_loaded_envs", "_loaded_hooks", "_loaded_by_loaders"}

\* the metadata objects of the secondary store the factory of line 812 built
DabMetadata ==
    ("dab._loaded_files" :> <<"ansible_base/lib/dynamic_config/default_settings.py">>)
    @@ ("dab._loaded_envs" :> <<"HUB">>)
    @@ ("dab._loaded_hooks" :> <<"ansible_base.lib.dynamic_config">>)
    @@ ("dab._loaded_by_loaders" :> <<"settings_file">>)

\* load_standard_settings_files(dab_dynaconf): the values of the standard
\* settings files are set on the secondary store, over what it holds
load_standard_settings_files(dab, files) == files @@ dab

configure_dab_required_settings(s, d, h, e) ==
    IF ~e.dab_valid
    THEN HookResult(EmptyDict, h, "ValidationError: external subsystem")
    ELSE LET keys == DOMAIN s \cup DOMAIN d
             lists == {k \in keys : IsRef(Get(d, k, Get(s, k, None)))}
         IN  HookResult(
                 ("DAB_DYNACONF" :> Obj("dab_dynaconf"))
                 @@ load_standard_settings_files(
                     [n \in {AsDictKey(k) : k \in keys} |->
                        LET k == CHOOSE k \in keys : AsDictKey(k) = n
                        IN  IF k \in lists THEN Ref("dab." \o k) ELSE Get(d, k, Get(s, k, None))],
                     e.standard_settings_files),
                 [a \in {"dab." \o k : k \in lists} |->
                        LET k == CHOOSE k \in lists : "dab." \o k = a
                        IN  DabValue(s, d, h, k)]
                 @@ DabMetadata @@ h,
                 NoError)

----------------------------------------------------------------------------
(* toggle_feature_flags is the external subsystem's; it reports feature     *)
(* flags only, none of which is a key the model follows.                    *)

toggle_feature_flags(s, h) == HookResult(EmptyDict, h, NoError)

----------------------------------------------------------------------------
(* configure_authentication_backends.  `backends` is the settings' own     *)
(* list object; extend and append mutate it in place; only the             *)
(* deduplication of the merge token rebinds the name to a new list.        *)

\* the list object `backends` is bound to at line 608
backends_object(s) == Get(s, "AUTHENTICATION_BACKENDS", Ref("authentication_backends.backends"))

\* the preset list selected by AUTHENTICATION_BACKEND_PRESET, or None
preset_list(s, h) ==
    LET preset_name == Get(s, "AUTHENTICATION_BACKEND_PRESET", None)
        presets == s["AUTHENTICATION_BACKEND_PRESETS_DATA"].m
    IN  IF preset_name # None /\ preset_name.s \in DOMAIN presets
        THEN Ref(presets[preset_name.s])
        ELSE None

\* the items of `backends` once lines 611-622 have run
backends_extended(s, d, h) ==
    LET b == backends_object(s)
        start == IF b.ref \in DOMAIN h THEN h[b.ref] ELSE <<>>
        default_list == Get(d, "AUTHENTICATION_BACKENDS", None)
        merged == IF default_list # None THEN ExtendMissing(start, h[default_list.ref]) ELSE start
        preset == preset_list(s, h)
        withPreset == IF preset # None THEN ExtendMissing(merged, h[preset.ref]) ELSE merged
    IN  IF Contains(withPreset, prefix_backend)
        THEN withPreset
        ELSE Append(withPreset, prefix_backend)

configure_authentication_backends(s, d, h) ==
    IF "AUTHENTICATION_BACKEND_PRESETS_DATA" \notin DOMAIN s
    THEN HookResult(d, h, "AttributeError")
    ELSE LET b == backends_object(s)
             extended == backends_extended(s, d, h)
             h1 == (b.ref :> extended) @@ h
         IN  IF Count(extended, dynaconf_merge) > 1
             THEN HookResult(
                      ("AUTHENTICATION_BACKENDS" :> Ref("authentication_backends.deduplicated")) @@ d,
                      ("authentication_backends.deduplicated" :>
                           Append(Without(extended, dynaconf_merge), dynaconf_merge)) @@ h1,
                      NoError)
             ELSE IF Len(extended) > 0
                  THEN HookResult(("AUTHENTICATION_BACKENDS" :> b) @@ d, h1, NoError)
                  ELSE HookResult(d, h1, NoError)

----------------------------------------------------------------------------
(* configure_authentication_classes.  The list it works on is the object   *)
(* held by data (or by the settings when data has no such key); insert and *)
(* remove mutate it in place; the three keys receive copies.               *)

\* the list object galaxy_auth_classes is bound to at lines 431-436
classes_object(s, d) ==
    LET found == Get(d, "GALAXY_AUTHENTICATION_CLASSES",
                     Get(s, "GALAXY_AUTHENTICATION_CLASSES", None))
    IN  IF found = None THEN Ref("authentication_classes.empty") ELSE found

\* lines 439-446: the keycloak classes, each inserted in front when missing
with_keycloak_classes(d, classes) ==
    IF Get(d, "GALAXY_AUTH_KEYCLOAK_ENABLED", None) = Bool(TRUE)
    THEN LET first == IF Contains(classes, ExpiringTokenAuthentication)
                      THEN classes
                      ELSE Insert0(classes, ExpiringTokenAuthentication)
         IN  IF Contains(first, KeycloakBasicAuth)
             THEN first
             ELSE Insert0(first, KeycloakBasicAuth)
    ELSE classes

\* the session class put in front without removing it from where it was
session_first_keeping(classes) ==
    IF classes # <<>> /\ classes[1] # galaxy_session
    THEN Insert0(classes, galaxy_session)
    ELSE classes

\* lines 448-456: the session class is moved or put in front
session_first(classes) ==
    IF classes # <<>> /\ classes[1] # galaxy_session
    THEN IF Contains(classes, galaxy_session)
         THEN Insert0(Remove(classes, galaxy_session), galaxy_session)
         ELSE Insert0(classes, galaxy_session)
    ELSE classes

\* the two steps in the other order: the keycloak classes inserted last
resolve_classes_keycloak_last(d, classes) == with_keycloak_classes(d, session_first(classes))

resolve_classes(d, classes) == session_first(with_keycloak_classes(d, classes))

configure_authentication_classes(s, d, h) ==
    LET c == classes_object(s, d)
        start == IF c.ref \in DOMAIN h THEN h[c.ref] ELSE <<>>
        resolved == resolve_classes(d, start)
        h1 == (c.ref :> resolved) @@ h
    IN  IF resolved # <<>>
        THEN HookResult(
                 ("ANSIBLE_AUTHENTICATION_CLASSES" :> Ref("authentication_classes.ANSIBLE"))
                 @@ ("GALAXY_AUTHENTICATION_CLASSES" :> Ref("authentication_classes.GALAXY"))
                 @@ ("REST_FRAMEWORK__DEFAULT_AUTHENTICATION_CLASSES" :>
                         Ref("authentication_classes.REST_FRAMEWORK"))
                 @@ d,
                 ("authentication_classes.ANSIBLE" :> resolved)
                 @@ ("authentication_classes.GALAXY" :> resolved)
                 @@ ("authentication_classes.REST_FRAMEWORK" :> resolved)
                 @@ h1,
                 NoError)
        ELSE HookResult(d, h1, NoError)

----------------------------------------------------------------------------
(* validate.  Two validators are registered and evaluated in registration  *)
(* order; the first failing one raises.  A validator with `when` is        *)
(* evaluated only if its condition validator passes.                       *)

\* the conditional rule with its condition left out
approval_condition_ignored(s) == TRUE

\* Validator("GALAXY_REQUIRE_CONTENT_APPROVAL", eq=False)
approval_condition(s) == Get(s, "GALAXY_REQUIRE_CONTENT_APPROVAL", None) = Bool(FALSE)

\* Validator("GALAXY_REQUIRE_SIGNATURE_FOR_APPROVAL", eq=False, when=...)
signature_rule_fails(s) ==
    /\ approval_condition(s)
    /\ "GALAXY_REQUIRE_SIGNATURE_FOR_APPROVAL" \in DOMAIN s
    /\ s["GALAXY_REQUIRE_SIGNATURE_FOR_APPROVAL"] # Bool(FALSE)

\* the permitted set without the names of the presets mapping
permitted_presets_fixed(s) == {"local", "custom"}

\* is_in=["local", "custom", *presets.keys()]
permitted_presets(s) ==
    {"local", "custom"} \cup
    (IF "AUTHENTICATION_BACKEND_PRESETS_DATA" \in DOMAIN s
     THEN DOMAIN s["AUTHENTICATION_BACKEND_PRESETS_DATA"].m
     ELSE {})

\* Validator("AUTHENTICATION_BACKEND_PRESET", is_in=...)
preset_rule_fails(s) ==
    /\ "AUTHENTICATION_BACKEND_PRESET" \in DOMAIN s
    /\ s["AUTHENTICATION_BACKEND_PRESET"].s \notin permitted_presets(s)

SignatureError == "ValidationError: GALAXY_REQUIRE_SIGNATURE_FOR_APPROVAL"
PresetError == "ValidationError: AUTHENTICATION_BACKEND_PRESET"

\* the exception settings.validators.validate() raises, NoError when none
validate(s) ==
    IF signature_rule_fails(s) THEN SignatureError
    ELSE IF preset_rule_fails(s) THEN PresetError
    ELSE NoError

----------------------------------------------------------------------------
(* configure_dynamic_settings: the hooks named by DYNACONF_AFTER_GET_HOOKS  *)
(* are looked up among the two local functions; an unknown name raises      *)
(* KeyError; no hook is registered when the setting is unset or dynaconf's  *)
(* hooking module cannot be imported.                                       *)

HookNames == {"read_settings_from_cache_or_db", "alter_hostname_settings"}

NoHooks == <<>>

\* the hook without the try of lines 703-715 around the lazy imports
configure_dynamic_settings_uncaught(s, h, e) ==
    LET enabled_hooks == Get(s, "DYNACONF_AFTER_GET_HOOKS", None)
    IN  IF enabled_hooks = None \/ enabled_hooks.l = <<>>
        THEN HookResult(EmptyDict, h, NoError)
        ELSE IF ~e.hooking_available
        THEN HookResult(EmptyDict, h, "ImportError")
        ELSE HookResult("_registered_hooks" :> [after_get |-> enabled_hooks.l], h, NoError)

configure_dynamic_settings(s, h, e) ==
    LET enabled_hooks == Get(s, "DYNACONF_AFTER_GET_HOOKS", None)
    IN  IF enabled_hooks = None \/ enabled_hooks.l = <<>>
        THEN HookResult(EmptyDict, h, NoError)
        ELSE IF ~e.hooking_available
        THEN HookResult(EmptyDict, h, NoError)
        ELSE IF \E i \in DOMAIN enabled_hooks.l : enabled_hooks.l[i] \notin HookNames
        THEN HookResult(EmptyDict, h, "KeyError")
        ELSE HookResult("_registered_hooks" :> [after_get |-> enabled_hooks.l], h, NoError)

----------------------------------------------------------------------------
(* configure_dynaconf_cli: needs the secondary store left in data by the    *)
(* aggregator, and adds the CLI instance.                                   *)

\* lines 866-869: the object each metadata attribute of cli_dynaconf is bound to
cli_metadata(name) == "settings." \o name

\* lines 871-877 on the objects cli_dynaconf's attributes are bound to: the
\* lists are extended, the mappings updated, and the hook is added to the
\* history
cli_metadata_merged(h) ==
    (cli_metadata("_loaded_files") :>
         h[cli_metadata("_loaded_files")] \o h["dab._loaded_files"])
    @@ (cli_metadata("_loaded_hooks") :>
         ExtendMissing(ExtendMissing(h[cli_metadata("_loaded_hooks")], h["dab._loaded_hooks"]),
                       <<"galaxy_ng.app.dynaconf_hooks">>))
    @@ (cli_metadata("_loaded_by_loaders") :>
         ExtendMissing(h[cli_metadata("_loaded_by_loaders")], h["dab._loaded_by_loaders"]))
    @@ (cli_metadata("_loaded_envs") :>
         h[cli_metadata("_loaded_envs")] \o h["dab._loaded_envs"])

configure_dynaconf_cli(s, d, h) ==
    IF "DAB_DYNACONF" \notin DOMAIN d
    THEN HookResult(d, h, "AttributeError")
    ELSE HookResult(("CLI_DYNACONF" :> Obj("cli_dynaconf")) @@ d,
                    cli_metadata_merged(h) @@ h, NoError)

----------------------------------------------------------------------------
(* The settings post is called with.  The application's defaults define    *)
(* every key below except the optional ones, which are set or left unset.  *)

Session == galaxy_session
Token == TokenAuthentication
Basic == BasicAuthentication

\* GALAXY_AUTHENTICATION_CLASSES as deployments set it (<<>> stands for unset)
ClassChoices == {<<>>, <<Session, Token, Basic>>, <<Token, Session, Basic>>, <<Token, Basic>>}

PresetChoices == {"local", "keycloak", "unknown"}

\* the names defined in AUTHENTICATION_BACKEND_PRESETS_DATA
PresetsDataChoices == {{"ldap", "keycloak"}, {"ldap"}}

PresetBackends(name) ==
    IF name = "ldap"
    THEN <<"galaxy_ng.app.auth.ldap.PrefixedLDAPBackend", ModelBackend, dynaconf_merge>>
    ELSE <<KeycloakOAuth2, dynaconf_merge>>

\* what a deployment can lack: nothing, GALAXY_API_PATH_PREFIX, a secondary
\* store the external subsystem accepts, or a dynaconf with method hooking
FailureChoices == {"none", "no_api_path_prefix", "dab_invalid", "no_hooking"}

\* <<run_dynamic, DYNACONF_AFTER_GET_HOOKS>>
BothHooks == <<"read_settings_from_cache_or_db", "alter_hostname_settings">>
DynamicChoices == {<<TRUE, BothHooks>>, <<TRUE, <<>>>>, <<FALSE, BothHooks>>}

OptionalKeys(keys, present) ==
    IF present THEN [k \in keys |-> Str("set")] ELSE EmptyDict

InitialSettings(kc, gh, log, classes, preset, presets, approval, signature, failure, dyn) ==
    OptionalKeys(KeycloakKeys \cup {"KEYCLOAK_PROTOCOL"}, kc)
    @@ OptionalKeys({"SOCIAL_AUTH_GITHUB_KEY", "SOCIAL_AUTH_GITHUB_SECRET"}, gh)
    @@ (IF classes # <<>>
        THEN "GALAXY_AUTHENTICATION_CLASSES" :> Ref("settings.GALAXY_AUTHENTICATION_CLASSES")
        ELSE EmptyDict)
    @@ (IF failure # "no_api_path_prefix"
        THEN "GALAXY_API_PATH_PREFIX" :> Str("/api/galaxy/")
        ELSE EmptyDict)
    @@ (IF dyn # <<>>
        THEN "DYNACONF_AFTER_GET_HOOKS" :> [l |-> dyn]
        ELSE EmptyDict)
    @@ ("GALAXY_ENABLE_API_ACCESS_LOG" :> Bool(log))
    @@ ("AUTHENTICATION_BACKENDS" :> Ref("settings.AUTHENTICATION_BACKENDS"))
    @@ ("INSTALLED_APPS" :> Ref("settings.INSTALLED_APPS"))
    @@ ("MIDDLEWARE" :> Ref("settings.MIDDLEWARE"))
    @@ ("REST_FRAMEWORK__DEFAULT_RENDERER_CLASSES" :>
            Ref("settings.REST_FRAMEWORK__DEFAULT_RENDERER_CLASSES"))
    @@ ("AUTH_PASSWORD_VALIDATORS" :> Ref("settings.AUTH_PASSWORD_VALIDATORS"))
    @@ ("CONTENT_ORIGIN" :> Str("https://hub.example.com"))
    @@ ("AUTHENTICATION_BACKEND_PRESET" :> Str(preset))
    @@ ("AUTHENTICATION_BACKEND_PRESETS_DATA" :> [m |-> [n \in presets |-> "settings.presets." \o n]])
    @@ ("GALAXY_REQUIRE_CONTENT_APPROVAL" :> Bool(approval))
    @@ ("GALAXY_REQUIRE_SIGNATURE_FOR_APPROVAL" :> Bool(signature))

InitialHeap(classes, presets) ==
    (IF classes # <<>>
     THEN "settings.GALAXY_AUTHENTICATION_CLASSES" :> classes
     ELSE EmptyDict)
    @@ [a \in {"settings.presets." \o n : n \in presets} |->
           PresetBackends(CHOOSE n \in presets : "settings.presets." \o n = a)]
    @@ ("settings.AUTHENTICATION_BACKENDS" :> <<ModelBackend>>)
    @@ ("settings.INSTALLED_APPS" :> <<"pulpcore.app", "galaxy_ng.app">>)
    @@ ("settings.MIDDLEWARE" :> <<"django.middleware.security.SecurityMiddleware">>)
    @@ ("settings.REST_FRAMEWORK__DEFAULT_RENDERER_CLASSES" :>
            <<"rest_framework.renderers.JSONRenderer">>)
    @@ ("settings.AUTH_PASSWORD_VALIDATORS" :>
            <<[NAME |-> MinimumLengthValidator, min_length |-> 8]>>)

\* what /etc/ansible-automation-platform/*.yaml set, among the keys validate reads
StandardFilesChoices == {EmptyDict, ("GALAXY_REQUIRE_CONTENT_APPROVAL" :> Bool(FALSE))}

\* the load metadata of the settings object post is called with
InitialMetadata ==
    ("settings._loaded_files" :> <<"pulpcore/app/settings.py", "/etc/pulp/settings.py">>)
    @@ ("settings._loaded_envs" :> <<"PULP">>)
    @@ ("settings._loaded_hooks" :> <<"pulpcore.app.settings">>)
    @@ ("settings._loaded_by_loaders" :> <<"settings_file", "env_global">>)

InitialEnv(failure, files) ==
    [DEV_SOURCE_PATH |-> None,
     standard_settings_files |-> files,
     GALAXY_ENABLE_API_ACCESS_LOG |-> Bool(FALSE),
     group_type_loads |-> TRUE,
     dab_valid |-> failure # "dab_invalid",
     hooking_available |-> failure # "no_hooking"]

NoResult == [returned |-> FALSE, value |-> EmptyDict]
NoFirstResult == [returned |-> FALSE, lists |-> EmptyDict, objects |-> EmptyDict]
NoRequest == None
NoRead == [key |-> "", value |-> None, static |-> None, ready |-> FALSE,
           cache_read |-> FALSE, db_read |-> FALSE, request |-> None,
           merge_failed |-> FALSE, raised |-> "", lookup_error |-> "",
           request_read |-> FALSE, after_fill |-> FALSE,
           cache |-> <<>>, db |-> <<>>]

\* the keys the imported schema can declare dynamic, among those the model reads
SchemaChoices ==
    {{"GALAXY_REQUIRE_CONTENT_APPROVAL", "GALAXY_AUTO_SIGN_COLLECTIONS"},
     {"GALAXY_REQUIRE_CONTENT_APPROVAL"}}

\* the worker threads that serve requests and read settings
Threads == {"t1", "t2"}

\* a thread outside any request, with no read made yet
IdleThread == [request |-> None, pc |-> "idle", key |-> "", value |-> None,
               static |-> None, ready |-> FALSE, concurrent |-> FALSE]

\* the override layer before any settings object is served
ReadIdle ==
    /\ apps_ready = FALSE
    /\ DYNAMIC_SETTINGS_SCHEMA = {"GALAXY_REQUIRE_CONTENT_APPROVAL", "GALAXY_AUTO_SIGN_COLLECTIONS"}
    /\ hooks = NoHooks
    /\ store = EmptyDict
    /\ cache = <<>>
    /\ db = <<>>
    /\ request = NoRequest
    /\ last = NoRead
    /\ threads = [t \in Threads |-> IdleThread]

\* post has just built `data = {"dynaconf_merge": False}`
PostStart ==
    /\ data = ("dynaconf_merge" :> Bool(FALSE))
    /\ pc = "configure_ldap"
    /\ result = NoResult
    /\ error = NoError
    /\ seen = EmptyDict
    /\ ran = <<>>
    /\ classes_in = <<>>
    /\ first_result = NoFirstResult

Init ==
    /\ \E kc \in BOOLEAN, gh \in BOOLEAN, log \in BOOLEAN, classes \in ClassChoices,
          preset \in PresetChoices, presets \in PresetsDataChoices,
          approval \in BOOLEAN, signature \in BOOLEAN,
          failure \in FailureChoices, dyn \in DynamicChoices, run_validate \in BOOLEAN,
          files \in StandardFilesChoices :
          /\ settings = InitialSettings(kc, gh, log, classes, preset, presets,
                                        approval, signature, failure, dyn[2])
          /\ heap = InitialMetadata @@ InitialHeap(classes, presets)
          /\ env = InitialEnv(failure, files)
          /\ params = [run_dynamic |-> dyn[1], run_validate |-> run_validate]
    /\ PostStart
    /\ ReadIdle

----------------------------------------------------------------------------
(* post: one action per stage, in the order of lines 68-103.  A stage that *)
(* raises ends the pass: nothing is returned.                               *)

\* a pass that carries on after a stage raised
StageSwallowing(name, next, r) ==
    /\ pc = name
    /\ ran' = Append(ran, name)
    /\ heap' = r.heap
    /\ pc' = next
    /\ IF r.raised # NoError
       THEN error' = r.raised /\ UNCHANGED data
       ELSE data' = Update(data, r.ret) /\ UNCHANGED error
    /\ UNCHANGED <<settings, result, params, env, first_result>>
    /\ UNCHANGED readVars

\* data.update(hook(...)) followed by the next stage, or the exception
Stage(name, next, r) ==
    /\ pc = name
    /\ ran' = Append(ran, name)
    /\ heap' = r.heap
    /\ IF r.raised # NoError
       THEN pc' = "raised" /\ error' = r.raised /\ UNCHANGED data
       ELSE pc' = next /\ data' = Update(data, r.ret) /\ UNCHANGED error
    /\ UNCHANGED <<settings, result, params, env, first_result>>
    /\ UNCHANGED readVars

Ldap ==
    /\ Stage("configure_ldap", "configure_logging", configure_ldap(settings, heap, env))
    /\ UNCHANGED <<seen, classes_in>>

Logging ==
    /\ Stage("configure_logging", "configure_keycloak", configure_logging(settings, heap, env))
    /\ UNCHANGED <<seen, classes_in>>

Keycloak ==
    /\ Stage("configure_keycloak", "configure_socialauth", configure_keycloak(settings, heap))
    /\ UNCHANGED <<seen, classes_in>>

Socialauth ==
    /\ Stage("configure_socialauth", "configure_cors", configure_socialauth(settings, heap))
    /\ seen' = IF "AUTHENTICATION_BACKENDS" \in DOMAIN configure_socialauth(settings, heap).ret
               THEN ("configure_socialauth" :> ListOf(settings, heap, "AUTHENTICATION_BACKENDS")) @@ seen
               ELSE seen
    /\ UNCHANGED classes_in

Cors ==
    /\ Stage("configure_cors", "configure_pulp_ansible", configure_cors(settings, heap, env))
    /\ UNCHANGED <<seen, classes_in>>

PulpAnsible ==
    /\ Stage("configure_pulp_ansible", "configure_renderers", configure_pulp_ansible(settings, heap))
    /\ UNCHANGED <<seen, classes_in>>

Renderers ==
    /\ Stage("configure_renderers", "configure_password_validators",
             configure_renderers(settings, heap))
    /\ UNCHANGED <<seen, classes_in>>

PasswordValidators ==
    /\ Stage("configure_password_validators", "configure_api_base_path",
             configure_password_validators(settings, heap))
    /\ UNCHANGED <<seen, classes_in>>

ApiBasePath ==
    /\ Stage("configure_api_base_path", "configure_legacy_roles",
             configure_api_base_path(settings, heap))
    /\ UNCHANGED <<seen, classes_in>>

\* line 77 followed by line 80: the aggregator of line 79 left out
LegacyRolesThenFeatureFlags ==
    /\ Stage("configure_legacy_roles", "toggle_feature_flags",
             configure_legacy_roles(settings, heap))
    /\ UNCHANGED <<seen, classes_in>>

LegacyRoles ==
    /\ Stage("configure_legacy_roles", "configure_dab_required_settings",
             configure_legacy_roles(settings, heap))
    /\ UNCHANGED <<seen, classes_in>>

DabRequiredSettings ==
    /\ Stage("configure_dab_required_settings", "toggle_feature_flags",
             configure_dab_required_settings(settings, data, heap, env))
    /\ UNCHANGED <<seen, classes_in>>

ToggleFeatureFlags ==
    /\ Stage("toggle_feature_flags", "configure_authentication_backends",
             toggle_feature_flags(settings, heap))
    /\ UNCHANGED <<seen, classes_in>>

AuthenticationBackends ==
    /\ Stage("configure_authentication_backends", "configure_authentication_classes",
             configure_authentication_backends(settings, data, heap))
    /\ seen' = ("configure_authentication_backends" :>
                    (IF "AUTHENTICATION_BACKENDS" \in DOMAIN data
                     THEN heap[data["AUTHENTICATION_BACKENDS"].ref]
                     ELSE <<>>))
                @@ ("configure_authentication_backends.settings" :>
                    (IF backends_object(settings).ref \in DOMAIN heap
                     THEN heap[backends_object(settings).ref]
                     ELSE <<>>))
                @@ seen
    /\ UNCHANGED classes_in

AuthenticationClasses ==
    /\ Stage("configure_authentication_classes", "resource_server",
             configure_authentication_classes(settings, data, heap))
    /\ classes_in' = (IF classes_object(settings, data).ref \in DOMAIN heap
                      THEN heap[classes_object(settings, data).ref]
                      ELSE <<>>)
    /\ UNCHANGED seen

\* line 91 made to switch the keycloak flag off as well
ResourceServerResettingKeycloak ==
    /\ Stage("resource_server", "configure_dynamic_settings",
             HookResult(("IS_CONNECTED_TO_RESOURCE_SERVER" :>
                            Bool(Get(settings, "RESOURCE_SERVER__URL", None) # None))
                        @@ ("GALAXY_AUTH_KEYCLOAK_ENABLED" :> Bool(FALSE)),
                        heap, NoError))
    /\ UNCHANGED <<seen, classes_in>>

\* data["IS_CONNECTED_TO_RESOURCE_SERVER"] = settings.get("RESOURCE_SERVER__URL") is not None
ResourceServer ==
    /\ Stage("resource_server", "configure_dynamic_settings",
             HookResult("IS_CONNECTED_TO_RESOURCE_SERVER" :>
                            Bool(Get(settings, "RESOURCE_SERVER__URL", None) # None),
                        heap, NoError))
    /\ UNCHANGED <<seen, classes_in>>

\* a stage post runs only when its flag is set
Skip(name, next) ==
    /\ pc = name
    /\ pc' = next
    /\ UNCHANGED <<settings, heap, data, result, error, seen, ran, classes_in, params, env, first_result>>
    /\ UNCHANGED readVars

DynamicSettings ==
    IF params.run_dynamic
    THEN /\ Stage("configure_dynamic_settings", "validate",
                  configure_dynamic_settings(settings, heap, env))
         /\ UNCHANGED <<seen, classes_in>>
    ELSE Skip("configure_dynamic_settings", "validate")

Validate ==
    IF params.run_validate
    THEN /\ Stage("validate", "configure_dynaconf_cli",
                  HookResult(EmptyDict, heap, validate(settings)))
         /\ UNCHANGED <<seen, classes_in>>
    ELSE Skip("validate", "configure_dynaconf_cli")

\* data.update(configure_dynaconf_cli(settings, data)); return data
DynaconfCli ==
    LET r == configure_dynaconf_cli(settings, data, heap)
    IN  /\ pc = "configure_dynaconf_cli"
        /\ ran' = Append(ran, "configure_dynaconf_cli")
        /\ heap' = r.heap
        /\ IF r.raised # NoError
           THEN pc' = "raised" /\ error' = r.raised /\ UNCHANGED <<data, result>>
           ELSE /\ pc' = "returned"
                /\ UNCHANGED error
                /\ data' = Update(data, r.ret)
                /\ result' = [returned |-> TRUE, value |-> Update(data, r.ret)]
        /\ UNCHANGED <<settings, seen, classes_in, params, env, first_result>>
        /\ UNCHANGED readVars

Next ==
    \/ Ldap
    \/ Logging
    \/ Keycloak
    \/ Socialauth
    \/ Cors
    \/ PulpAnsible
    \/ Renderers
    \/ PasswordValidators
    \/ ApiBasePath
    \/ LegacyRoles
    \/ DabRequiredSettings
    \/ ToggleFeatureFlags
    \/ AuthenticationBackends
    \/ AuthenticationClasses
    \/ ResourceServer
    \/ DynamicSettings
    \/ Validate
    \/ DynaconfCli

Spec == Init /\ [][Next]_vars

----------------------------------------------------------------------------
(* Properties of one pass of post (specification Spec).                    *)

Ran(stage) == Contains(ran, stage)

Setting(k) == settings[k]

\* the items of a contributed list that are not merge tokens
Items(a) ==
    {heap[a][i] : i \in DOMAIN heap[a]} \ {dynaconf_merge, dynaconf_merge_unique}

\* the items post's dict holds for a key
Held(d, k) == IF k \in DOMAIN d /\ IsRef(d[k]) THEN {heap[d[k].ref][i] : i \in DOMAIN heap[d[k].ref]} ELSE {}

\* C1: a hook that reads a key an earlier hook of the pass contributed sees
\* the value merged so far: when configure_keycloak has contributed its
\* backend, configure_socialauth reads an AUTHENTICATION_BACKENDS holding it.
C1_LaterHookSeesEarlierContribution ==
    ("configure_socialauth" \in DOMAIN seen /\ "keycloak.AUTHENTICATION_BACKENDS" \in DOMAIN heap)
        => Contains(seen["configure_socialauth"], KeycloakOAuth2)

\* C2: the result post returns holds, for INSTALLED_APPS and for
\* AUTHENTICATION_BACKENDS, every item that any hook of the pass contributed
\* under a merge directive; a later contribution loses no earlier one.
C2_ContributionsCombined ==
    result.returned =>
        /\ \A a \in {"logging.INSTALLED_APPS", "keycloak.INSTALLED_APPS",
                     "socialauth.INSTALLED_APPS"} \cap DOMAIN heap :
               Items(a) \subseteq Held(result.value, "INSTALLED_APPS")
        /\ \A a \in {"keycloak.AUTHENTICATION_BACKENDS"} \cap DOMAIN heap :
               Items(a) \subseteq Held(result.value, "AUTHENTICATION_BACKENDS")

\* C8: the rule on GALAXY_REQUIRE_SIGNATURE_FOR_APPROVAL is active only when
\* GALAXY_REQUIRE_CONTENT_APPROVAL is False: validate raises for that rule
\* exactly when the approval setting is False and the signature setting True.
C8_ConditionalRule ==
    Ran("validate") =>
        /\ Setting("GALAXY_REQUIRE_CONTENT_APPROVAL") # Bool(FALSE) => error # SignatureError
        /\ (Setting("GALAXY_REQUIRE_CONTENT_APPROVAL") = Bool(FALSE)
            /\ Setting("GALAXY_REQUIRE_SIGNATURE_FOR_APPROVAL") = Bool(TRUE))
               => (pc = "raised" /\ error = SignatureError)

\* validate ran with the condition false and the bound predicate failing,
\* and did not raise
C8_Witness ==
    /\ Ran("validate")
    /\ Setting("GALAXY_REQUIRE_CONTENT_APPROVAL") = Bool(TRUE)
    /\ Setting("GALAXY_REQUIRE_SIGNATURE_FOR_APPROVAL") = Bool(TRUE)
    /\ pc # "raised"

\* C9: validate raises when AUTHENTICATION_BACKEND_PRESET is outside
\* {local, custom} united with the keys of AUTHENTICATION_BACKEND_PRESETS_DATA,
\* and the preset rule passes for every key of that mapping.
C9_PresetMembership ==
    Ran("validate") =>
        /\ Setting("AUTHENTICATION_BACKEND_PRESET").s \notin
               ({"local", "custom"} \cup DOMAIN Setting("AUTHENTICATION_BACKEND_PRESETS_DATA").m)
               => (pc = "raised" /\ error \in {SignatureError, PresetError})
        /\ Setting("AUTHENTICATION_BACKEND_PRESET").s \in
               DOMAIN Setting("AUTHENTICATION_BACKEND_PRESETS_DATA").m
               => /\ error # PresetError
                  /\ error # SignatureError => pc # "raised"

\* validate ran on a preset that only the presets mapping permits, and passed
C9_Witness ==
    /\ Ran("validate")
    /\ Setting("AUTHENTICATION_BACKEND_PRESET") = Str("keycloak")
    /\ "keycloak" \in DOMAIN Setting("AUTHENTICATION_BACKEND_PRESETS_DATA").m
    /\ pc # "raised"

\* what makes a pass fail in this model: a hook raising (the API path
\* prefix is unset), the external subsystem rejecting the secondary store,
\* or validate raising
PassFails ==
    \/ "GALAXY_API_PATH_PREFIX" \notin DOMAIN settings
    \/ ~env.dab_valid
    \/ (params.run_validate /\ (signature_rule_fails(settings) \/ preset_rule_fails(settings)))

\* C10: if a hook raises, the aggregator's validation fails or validate
\* raises, post returns nothing: a pass that raised has handed back no
\* dict, and a dict is handed back only by a pass in which nothing failed.
C10_NothingPublishedOnFailure ==
    /\ pc = "raised" => result = NoResult
    /\ result.returned => (pc = "returned" /\ error = NoError /\ ~PassFails)

\* validate raised after every hook had added its part to data
C10_Witness ==
    /\ pc = "raised"
    /\ error = PresetError
    /\ "API_ROOT" \in DOMAIN data
    /\ "DAB_DYNACONF" \in DOMAIN data
    /\ result = NoResult

----------------------------------------------------------------------------
(* configure_authentication_classes on its own (specification SpecClasses): *)
(* every class list up to MaxClasses items, held by data or by the settings, *)
(* with and without the keycloak flag an earlier hook sets.                  *)

MaxClasses == 3

ClassNames == {Session, Token, ExpiringTokenAuthentication}

BoundedSeq(S, n) == UNION {[1..m -> S] : m \in 0..n}

InitClasses ==
    /\ \E classes \in BoundedSeq(ClassNames, MaxClasses), kc \in BOOLEAN, inData \in BOOLEAN :
          /\ settings = IF inData
                        THEN EmptyDict
                        ELSE "GALAXY_AUTHENTICATION_CLASSES" :> Ref("settings.GALAXY_AUTHENTICATION_CLASSES")
          /\ data = (IF inData
                     THEN "GALAXY_AUTHENTICATION_CLASSES" :> Ref("data.GALAXY_AUTHENTICATION_CLASSES")
                     ELSE EmptyDict)
                    @@ (IF kc THEN "GALAXY_AUTH_KEYCLOAK_ENABLED" :> Bool(TRUE) ELSE EmptyDict)
                    @@ ("dynaconf_merge" :> Bool(FALSE))
          /\ heap = IF inData
                    THEN "data.GALAXY_AUTHENTICATION_CLASSES" :> classes
                    ELSE "settings.GALAXY_AUTHENTICATION_CLASSES" :> classes
    /\ pc = "configure_authentication_classes"
    /\ result = NoResult
    /\ error = NoError
    /\ seen = EmptyDict
    /\ ran = <<>>
    /\ classes_in = <<>>
    /\ first_result = NoFirstResult
    /\ params = [run_dynamic |-> FALSE, run_validate |-> FALSE]
    /\ env = InitialEnv("none", EmptyDict)
    /\ ReadIdle

NextClasses == AuthenticationClasses

SpecClasses == InitClasses /\ [][NextClasses]_vars

\* the list configure_authentication_classes left under GALAXY_AUTHENTICATION_CLASSES
Resolved == heap[data["GALAXY_AUTHENTICATION_CLASSES"].ref]

\* the session class is in the given list, somewhere after position 0
SessionMisplaced == \E i \in 2..Len(classes_in) : classes_in[i] = galaxy_session

\* the classes of `seq` other than the session class that the given list had
OthersOf(seq) ==
    LET other(c) == c # galaxy_session /\ Contains(classes_in, c)
    IN  SelectSeq(seq, other)

\* C3 as stated: a list holding the session class at a position other than 0
\* is resolved to a list with that class at position 0 and exactly once, the
\* other classes in their original relative order.
C3_SessionFirstExactlyOnce ==
    (Ran("configure_authentication_classes") /\ SessionMisplaced) =>
        /\ Resolved[1] = galaxy_session
        /\ Count(Resolved, galaxy_session) = 1
        /\ OthersOf(Resolved) = OthersOf(classes_in)

\* C3: the session class is at position 0, occurs as often as in the given
\* list (only its first occurrence is moved), and the other classes keep
\* their original relative order.
C3_SessionFirstFirstOccurrenceMoved ==
    (Ran("configure_authentication_classes") /\ SessionMisplaced) =>
        /\ Resolved[1] = galaxy_session
        /\ Count(Resolved, galaxy_session) = Count(classes_in, galaxy_session)
        /\ OthersOf(Resolved) = OthersOf(classes_in)

\* a list with the session class once, last of three, has been resolved
C3_Witness ==
    /\ Ran("configure_authentication_classes")
    /\ classes_in = <<Token, ExpiringTokenAuthentication, Session>>
    /\ Resolved = <<Session, Token, ExpiringTokenAuthentication>>

----------------------------------------------------------------------------
(* The override layer: settings.get(key) on the served settings object,    *)
(* whose after-get hooks are the functions configure_dynamic_settings      *)
(* registered.  Each hook receives a temporary copy of the settings, the   *)
(* value found so far and the key, and returns the value to hand on.       *)

\* str.upper() for the keys the model reads
Upper(k) ==
    CASE k = "galaxy_require_content_approval" -> "GALAXY_REQUIRE_CONTENT_APPROVAL"
      [] k = "content_origin" -> "CONTENT_ORIGIN"
      [] OTHER -> k

ALLOWED_KEYS == {"CONTENT_ORIGIN", "ANSIBLE_API_HOSTNAME", "TOKEN_SERVER"}

\* a value dynaconf cannot parse or format while merging it
Malformed == Str("@format {this.MISSING")

Unbound == "unbound"

\* line 730, the hook without the test of apps.ready
bypass_dynamic_when_listed(ready, key) == Upper(key) \notin DYNAMIC_SETTINGS_SCHEMA

\* line 730: the hook hands the value on untouched
bypass_dynamic(ready, key) == ~ready \/ Upper(key) \notin DYNAMIC_SETTINGS_SCHEMA

\* lines 739-744 with the two sources consulted in the other order
fetch_overrides_db_first(c, d) ==
    IF d # <<>>
    THEN [data |-> d, metadata |-> "db", cache_read |-> FALSE, db_read |-> TRUE]
    ELSE [data |-> c, metadata |-> IF c # <<>> THEN "cache" ELSE Unbound,
          cache_read |-> TRUE, db_read |-> TRUE]

\* lines 739-744: the cache first, the table only when the cache gave nothing
fetch_overrides(c, d) ==
    IF c # <<>>
    THEN [data |-> c, metadata |-> "cache", cache_read |-> TRUE, db_read |-> FALSE]
    ELSE [data |-> d, metadata |-> IF d # <<>> THEN "db" ELSE Unbound,
          cache_read |-> TRUE, db_read |-> TRUE]

\* a get_settings_from_db that leaves the cache as it found it
cache_after_fetch_without_write(c, d) == c

\* get_settings_from_db writes what it fetched through to the cache
cache_after_fetch(c, d) == IF c = <<>> /\ d # <<>> THEN d ELSE c

\* lines 748-752: temp_settings.update(data) sets the keys one after the
\* other; a value that fails to parse raises, which ends the update with the
\* keys before it set, and the exception is logged and dropped
RECURSIVE merge_overrides(_, _)
merge_overrides(temp, pairs) ==
    IF pairs = <<>> THEN [store |-> temp, failed |-> FALSE]
    ELSE IF Head(pairs)[2] = Malformed THEN [store |-> temp, failed |-> TRUE]
    ELSE merge_overrides((Head(pairs)[1] :> Head(pairs)[2]) @@ temp, Tail(pairs))

\* lines 754-762, a log line that names the source whatever was fetched
log_reads_metadata_always(fetched) == TRUE

\* lines 754-762: the log lines that name metadata run only when data is truthy
log_reads_metadata(fetched) == fetched # <<>>

ReadOutcome(value, c, cache_read, db_read, merge_failed, raised) ==
    [value |-> value, cache |-> c, cache_read |-> cache_read, db_read |-> db_read,
     merge_failed |-> merge_failed, raised |-> raised, request_read |-> FALSE,
     updated |-> EmptyDict]

\* what a lookup raises when its source cannot be reached
CacheError == "ConnectionError: get_settings_from_cache"
DbError == "OperationalError: get_settings_from_db"

\* lines 739-742 are outside the try of line 748: an exception of either
\* lookup leaves the hook (`fails` names the source that is down, if any)
read_settings_from_cache_or_db(temp, value, key, ready, c, d, fails) ==
    IF bypass_dynamic(ready, key)
    THEN ReadOutcome(value, c, FALSE, FALSE, FALSE, NoError)
    ELSE IF fails = "cache"
    THEN ReadOutcome(value, c, TRUE, FALSE, FALSE, CacheError)
    ELSE IF fails = "db" /\ fetch_overrides(c, d).db_read
    THEN ReadOutcome(value, c, fetch_overrides(c, d).cache_read, TRUE, FALSE, DbError)
    ELSE LET f == fetch_overrides(c, d)
             merged == merge_overrides(temp, f.data)
             c1 == IF f.db_read THEN cache_after_fetch(c, d) ELSE c
         IN  IF log_reads_metadata(f.data) /\ f.metadata = Unbound
             THEN ReadOutcome(value, c1, f.cache_read, f.db_read, merged.failed, "UnboundLocalError")
             ELSE [ReadOutcome(Get(merged.store, Upper(key), value), c1,
                               f.cache_read, f.db_read, merged.failed, NoError)
                      EXCEPT !.updated = [k \in {j \in DOMAIN merged.store :
                                                     j \notin DOMAIN temp \/ merged.store[j] # temp[j]}
                                            |-> merged.store[k]]]

\* line 782 without the test of the key
bypass_hostname_any_key(ready, key) == ~ready

\* line 782: the hook hands the value on untouched
bypass_hostname(ready, key) == ~ready \/ Upper(key) \notin ALLOWED_KEYS

\* lines 788-794 without the token path
baseurl_without_token(headers, key) ==
    Get(headers, "X-Forwarded-Proto", "http") \o "://" \o Get(headers, "Host", "localhost:5001")

\* lines 788-794
baseurl(headers, key) ==
    LET proto == Get(headers, "X-Forwarded-Proto", "http")
        host == Get(headers, "Host", "localhost:5001")
    IN  proto \o "://" \o host \o (IF Upper(key) = "TOKEN_SERVER" THEN "/token/" ELSE "")

alter_hostname_settings(value, key, ready, req) ==
    IF bypass_hostname(ready, key) THEN value
    ELSE IF req # NoRequest THEN Str(baseurl(req.headers, key))
    ELSE value

\* the after-get hooks applied in registration order to the value found
RECURSIVE run_hooks(_, _, _, _, _, _, _, _)
run_hooks(hs, temp, out, key, ready, d, req, fails) ==
    IF hs = <<>> \/ out.raised # NoError THEN out
    ELSE IF Head(hs) = "read_settings_from_cache_or_db"
         THEN LET r == read_settings_from_cache_or_db(temp, out.value, key, ready, out.cache, d, fails)
              IN  run_hooks(Tail(hs), temp,
                            [ReadOutcome(r.value, r.cache,
                                         out.cache_read \/ r.cache_read, out.db_read \/ r.db_read,
                                         out.merge_failed \/ r.merge_failed, r.raised)
                                EXCEPT !.request_read = out.request_read,
                                       !.updated = r.updated @@ out.updated],
                            key, ready, d, req, fails)
         ELSE run_hooks(Tail(hs), temp,
                        [out EXCEPT !.value = alter_hostname_settings(out.value, key, ready, req),
                                    !.request_read = @ \/ ~bypass_hostname(ready, key)],
                        key, ready, d, req, fails)

----------------------------------------------------------------------------
(* Reads through the override layer (specification SpecRead).              *)

MaxOverrides == 2

StoreKeys == {"GALAXY_REQUIRE_CONTENT_APPROVAL", "GALAXY_AUTO_SIGN_COLLECTIONS",
              "CONTENT_ORIGIN", "ANSIBLE_API_HOSTNAME", "TOKEN_SERVER", "API_ROOT"}

ReadKeys == StoreKeys \cup {"galaxy_require_content_approval", "content_origin"}

StaticStore == [k \in StoreKeys |-> Str("static " \o k)]

\* the overrides an administrator may have stored: key and raw value
OverridePairs ==
    ({"GALAXY_REQUIRE_CONTENT_APPROVAL"} \X {Str("A"), Str("B"), Malformed})
    \cup ({"GALAXY_AUTO_SIGN_COLLECTIONS"} \X {Str("A")})

\* the override sets the cache and the table can hold: dicts, in their
\* iteration order
OverrideSets ==
    {s \in BoundedSeq(OverridePairs, MaxOverrides) :
        \A i, j \in DOMAIN s : i # j => s[i][1] # s[j][1]}

\* the source that is down while a read is served, if any
LookupFailures == {"none", "cache", "db"}

MaxStored == 1

\* the override sets the settings table holds
StoredSets == {s \in OverrideSets : Len(s) <= MaxStored}

HeaderChoices ==
    {("X-Forwarded-Proto" :> "https") @@ ("Host" :> "example.org"),
     [k \in {} |-> ""]}

\* DYNACONF_AFTER_GET_HOOKS as deployments set it
HookListChoices == {BothHooks, <<"read_settings_from_cache_or_db">>, <<>>}

\* the after-get hooks the settings object carries once post's result is merged
RegisteredHooks(ret) ==
    IF "_registered_hooks" \in DOMAIN ret THEN ret["_registered_hooks"].after_get ELSE NoHooks

InitRead ==
    /\ \E l \in HookListChoices :
          /\ settings = (IF l # <<>> THEN "DYNACONF_AFTER_GET_HOOKS" :> [l |-> l] ELSE EmptyDict)
          /\ hooks = RegisteredHooks(configure_dynamic_settings(
                         (IF l # <<>> THEN "DYNACONF_AFTER_GET_HOOKS" :> [l |-> l] ELSE EmptyDict),
                         EmptyDict, InitialEnv("none", EmptyDict)).ret)
    /\ heap = EmptyDict
    /\ data = EmptyDict
    /\ pc = "returned"
    /\ result = NoResult
    /\ error = NoError
    /\ seen = EmptyDict
    /\ ran = <<>>
    /\ classes_in = <<>>
    /\ first_result = NoFirstResult
    /\ params = [run_dynamic |-> TRUE, run_validate |-> TRUE]
    /\ env = InitialEnv("none", EmptyDict)
    /\ apps_ready = FALSE
    /\ DYNAMIC_SETTINGS_SCHEMA \in SchemaChoices
    /\ store = StaticStore
    /\ cache = <<>>
    /\ db = <<>>
    /\ request = NoRequest
    /\ last = NoRead
    /\ threads = [t \in Threads |-> IdleThread]

\* django finishes loading the applications
AppsReady ==
    /\ ~apps_ready
    /\ apps_ready' = TRUE
    /\ last' = NoRead
    /\ UNCHANGED <<DYNAMIC_SETTINGS_SCHEMA, hooks, store, cache, db, request>>
    /\ UNCHANGED <<postVars, threads>>

\* the cache is filled, replaced or evicted by its owner
CacheWrite ==
    /\ \E s \in OverrideSets : s # cache /\ cache' = s
    /\ last' = NoRead
    /\ UNCHANGED <<apps_ready, DYNAMIC_SETTINGS_SCHEMA, hooks, store, db, request>>
    /\ UNCHANGED <<postVars, threads>>

\* an administrator edits the settings table
DbWrite ==
    /\ \E s \in StoredSets : s # db /\ db' = s
    /\ last' = NoRead
    /\ UNCHANGED <<apps_ready, DYNAMIC_SETTINGS_SCHEMA, hooks, store, cache, request>>
    /\ UNCHANGED <<postVars, threads>>

\* a request starts being served
RequestBegin ==
    /\ request = NoRequest
    /\ \E h \in HeaderChoices : request' = [headers |-> h]
    /\ last' = NoRead
    /\ UNCHANGED <<apps_ready, DYNAMIC_SETTINGS_SCHEMA, hooks, store, cache, db>>
    /\ UNCHANGED <<postVars, threads>>

\* the request has been served
RequestEnd ==
    /\ request # NoRequest
    /\ request' = NoRequest
    /\ last' = NoRead
    /\ UNCHANGED <<apps_ready, DYNAMIC_SETTINGS_SCHEMA, hooks, store, cache, db>>
    /\ UNCHANGED <<postVars, threads>>

\* a source being down shows only while the applications are ready, the
\* only state in which a hook consults it
ObservableFailures == IF apps_ready THEN LookupFailures ELSE {"none"}

\* settings.get(key): the static value, then every registered hook
\* the object the read was made on once it has been served, its store
\* updated with what the hooks set
settings_updated_by_read(s, updated) == updated @@ s

\* lines 720, 750: the update is made on temp_settings, the temporary
\* settings object of the read; the object the read was made on keeps its store
settings_after_read(s, updated) == s

\* the read just made went past line 730, got nothing from the cache and a
\* non-empty set from the table
MissThenFill ==
    /\ last.key # "" /\ last.ready
    /\ \E i \in DOMAIN hooks : hooks[i] = "read_settings_from_cache_or_db"
    /\ Upper(last.key) \in DYNAMIC_SETTINGS_SCHEMA
    /\ last.cache = <<>> /\ last.db # <<>> /\ last.lookup_error = NoError

SettingsGet ==
    \E key \in ReadKeys, fails \in ObservableFailures :
        LET static == Get(store, Upper(key), None)
            out == run_hooks(hooks, store,
                             ReadOutcome(static, cache, FALSE, FALSE, FALSE, NoError),
                             key, apps_ready, db, request, fails)
        IN  /\ last' = [key |-> key, value |-> out.value, static |-> static,
                        ready |-> apps_ready, cache_read |-> out.cache_read,
                        db_read |-> out.db_read, request |-> request,
                        merge_failed |-> out.merge_failed, raised |-> out.raised,
                        request_read |-> out.request_read,
                        after_fill |-> MissThenFill,
                        lookup_error |-> IF fails = "cache" /\ out.cache_read THEN CacheError
                                         ELSE IF fails = "db" /\ out.db_read THEN DbError
                                         ELSE NoError,
                        cache |-> cache, db |-> db]
            /\ cache' = out.cache
            /\ store' = settings_after_read(store, out.updated)
            /\ UNCHANGED <<apps_ready, DYNAMIC_SETTINGS_SCHEMA, hooks, db, request>>
            /\ UNCHANGED <<postVars, threads>>

NextRead ==
    \/ AppsReady
    \/ CacheWrite
    \/ DbWrite
    \/ RequestBegin
    \/ RequestEnd
    \/ SettingsGet

SpecRead == InitRead /\ [][NextRead]_vars

----------------------------------------------------------------------------
(* Properties of the override layer, checked under SpecRead.               *)

Registered(name) == \E i \in DOMAIN hooks : hooks[i] = name

HasRead == last.key # ""

Holds(pairs, k) == \E i \in DOMAIN pairs : pairs[i][1] = k

Lookup(pairs, k) == pairs[CHOOSE i \in DOMAIN pairs : pairs[i][1] = k][2]

DynamicRead ==
    /\ HasRead
    /\ last.ready
    /\ Registered("read_settings_from_cache_or_db")
    /\ Upper(last.key) \in DYNAMIC_SETTINGS_SCHEMA

\* get_settings_from_cache() returned a non-empty set
CacheHit == last.cache # <<>> /\ last.lookup_error = NoError

\* both lookups were made and returned nothing
TotalMiss == last.cache = <<>> /\ last.db = <<>> /\ last.lookup_error = NoError

HostnameRead ==
    /\ HasRead
    /\ last.ready
    /\ Registered("alter_hostname_settings")
    /\ Upper(last.key) \in ALLOWED_KEYS

\* C4: a read made while the applications are not ready returns the static
\* value of the key whatever the cache, the table and the request hold, and
\* neither the cache nor the table is consulted or written.
C4_BootingReadsAreStatic ==
    (HasRead /\ ~last.ready) =>
        /\ last.value = last.static
        /\ last.raised = NoError
        /\ ~last.cache_read
        /\ ~last.db_read
        /\ cache = last.cache

C4_Witness ==
    /\ HasRead
    /\ ~last.ready
    /\ hooks = BothHooks
    /\ last.key = "GALAXY_REQUIRE_CONTENT_APPROVAL"
    /\ Holds(last.cache, "GALAXY_REQUIRE_CONTENT_APPROVAL")
    /\ Lookup(last.cache, "GALAXY_REQUIRE_CONTENT_APPROVAL") = Str("A")
    /\ last.db # <<>>
    /\ last.request # NoRequest
    /\ last.value = last.static

C6_MissFallsBackToStatic ==
    (DynamicRead /\ TotalMiss) =>
        /\ last.raised = NoError
        /\ last.value = last.static

C6_Witness ==
    /\ DynamicRead
    /\ TotalMiss
    /\ last.cache_read
    /\ last.db_read
    /\ last.key = "GALAXY_AUTO_SIGN_COLLECTIONS"
    /\ last.value = StaticStore["GALAXY_AUTO_SIGN_COLLECTIONS"]

ProtoOf(req) == Get(req.headers, "X-Forwarded-Proto", "http")

HostOf(req) == Get(req.headers, "Host", "localhost:5001")

\* C7 as stated: a ready read of CONTENT_ORIGIN, ANSIBLE_API_HOSTNAME or
\* TOKEN_SERVER during a request returns proto://host of the request's
\* headers, and the static value when no request is active.
C7_RequestScopedIsProtoHost ==
    HostnameRead =>
        IF last.request # NoRequest
        THEN last.value = Str(ProtoOf(last.request) \o "://" \o HostOf(last.request))
        ELSE last.value = last.static

\* C7: a ready read of CONTENT_ORIGIN or ANSIBLE_API_HOSTNAME during a request
\* returns proto://host of the request's headers (http and localhost:5001
\* standing in for a missing header), a read of TOKEN_SERVER returns
\* proto://host/token/, and all three return the static value when no request
\* is active.
C7_RequestScopedIsBaseUrl ==
    HostnameRead =>
        IF last.request # NoRequest
        THEN last.value =
                Str(ProtoOf(last.request) \o "://" \o HostOf(last.request)
                    \o (IF Upper(last.key) = "TOKEN_SERVER" THEN "/token/" ELSE ""))
        ELSE last.value = last.static

C7_Witness ==
    /\ HostnameRead
    /\ last.key = "TOKEN_SERVER"
    /\ last.request # NoRequest
    /\ "Host" \in DOMAIN last.request.headers
    /\ last.value = Str("https://example.org/token/")

----------------------------------------------------------------------------
(* Effects of a pass of post on the settings it was given (Spec).          *)

\* the lists every settings object of the model holds, as post received them
SettingsListsBefore == InitialHeap(<<>>, {})

\* C11: once post has returned or raised, every list held by the settings it
\* was given (AUTHENTICATION_BACKENDS, MIDDLEWARE, INSTALLED_APPS,
\* REST_FRAMEWORK__DEFAULT_RENDERER_CLASSES, AUTH_PASSWORD_VALIDATORS) equals
\* what it was before the call.
C11_InputStoreUnchanged ==
    pc \in {"returned", "raised"} =>
        \A a \in DOMAIN SettingsListsBefore : heap[a] = SettingsListsBefore[a]

----------------------------------------------------------------------------
(* The settings consumers read once dynaconf has merged the dict post       *)
(* returned into the store post was given a copy of: every key is set over  *)
(* the value the store held, a list with a merge token being merged with    *)
(* that value and a list set under a key the store did not hold being kept  *)
(* as it is.                                                                *)

\* the keys of post's result that hold a list of names (the password
\* validators are a list of dicts)
ResultLists ==
    {k \in DOMAIN result.value : IsRef(result.value[k])} \ {"AUTH_PASSWORD_VALIDATORS"}

\* the list the store held under k before the merge (a list without token
\* replaces it whatever it was)
ExistingList(k) ==
    IF "settings." \o k \in DOMAIN SettingsListsBefore
    THEN SettingsListsBefore["settings." \o k]
    ELSE <<>>

\* the list consumers read under k after the merge
Published(k) ==
    IF k \in DOMAIN settings
    THEN SetList(ExistingList(k), heap[result.value[k].ref])
    ELSE heap[result.value[k].ref]

MergeTokens == {dynaconf_merge, dynaconf_merge_unique}

\* C12: no list of the settings published from post's result holds a merge
\* token (dynaconf_merge, dynaconf_merge_unique).
C12_NoTokenPublished ==
    result.returned =>
        \A k \in ResultLists : \A t \in MergeTokens : ~Contains(Published(k), t)

----------------------------------------------------------------------------
(* Failures while a read is served (SpecRead).                             *)

\* C13: when the cache lookup or the table lookup raises during a ready read
\* of a schema key, the read does not raise and returns the static value.
C13_LookupErrorsSwallowed ==
    (DynamicRead /\ last.lookup_error # NoError) =>
        /\ last.raised = NoError
        /\ last.value = last.static

\* C14: when merging the fetched set raises a parse or format error during a
\* ready read of a schema key, the read does not raise, no key of the fetched
\* set is applied, and the read returns the value the key had before the fetch.
C14_FailedMergeDiscarded ==
    (DynamicRead /\ last.merge_failed) =>
        /\ last.raised = NoError
        /\ last.value = last.static

\* C15: a read of a key outside a hook's allow-list passes that hook
\* untouched in every state: outside DYNAMIC_SETTINGS_SCHEMA neither the cache
\* nor the table is consulted or written, outside CONTENT_ORIGIN,
\* ANSIBLE_API_HOSTNAME, TOKEN_SERVER the request is not consulted, outside
\* both the static value is returned; keys are matched whatever their case,
\* so a lower-case spelling of a listed key is served by its hook.
C15_NotAllowListedBypasses ==
    HasRead =>
        /\ Upper(last.key) \notin DYNAMIC_SETTINGS_SCHEMA =>
               (~last.cache_read /\ ~last.db_read /\ cache = last.cache)
        /\ Upper(last.key) \notin ALLOWED_KEYS => ~last.request_read
        /\ Upper(last.key) \notin (DYNAMIC_SETTINGS_SCHEMA \cup ALLOWED_KEYS) =>
               (last.value = last.static /\ last.raised = NoError)
        /\ (last.key = "galaxy_require_content_approval" /\ last.ready
            /\ Registered("read_settings_from_cache_or_db")) => last.cache_read
        /\ (last.key = "content_origin" /\ last.ready /\ last.raised = NoError
            /\ Registered("alter_hostname_settings")) => last.request_read

\* a ready read, during a request, of a key the schema does not list while
\* the cache holds an override for it
C15_Witness ==
    /\ HasRead
    /\ last.ready
    /\ hooks = BothHooks
    /\ last.key = "GALAXY_AUTO_SIGN_COLLECTIONS"
    /\ "GALAXY_AUTO_SIGN_COLLECTIONS" \notin DYNAMIC_SETTINGS_SCHEMA
    /\ Holds(last.cache, "GALAXY_AUTO_SIGN_COLLECTIONS")
    /\ last.request # NoRequest
    /\ last.value = last.static
    /\ ~last.cache_read

----------------------------------------------------------------------------
(* Registration of the override hooks by a pass of post (Spec).            *)

\* no override hook is to be registered: dynaconf's hooking cannot be
\* imported, DYNACONF_AFTER_GET_HOOKS is unset, or run_dynamic is false
HookingOff ==
    \/ ~env.hooking_available
    \/ "DYNACONF_AFTER_GET_HOOKS" \notin DOMAIN settings
    \/ ~params.run_dynamic

\* C16: when dynaconf's hooking cannot be imported, when
\* DYNACONF_AFTER_GET_HOOKS is unset or when run_dynamic is false, no override
\* hook is registered, in data or in what post returns, and
\* configure_dynamic_settings does not end the pass by raising.
C16_DegradesWithoutHooking ==
    HookingOff =>
        /\ "_registered_hooks" \notin DOMAIN data
        /\ result.returned => "_registered_hooks" \notin DOMAIN result.value
        /\ pc = "raised" => ran[Len(ran)] # "configure_dynamic_settings"

\* post returned although the hooks were asked for and hooking was missing
C16_Witness ==
    /\ result.returned
    /\ ~env.hooking_available
    /\ params.run_dynamic
    /\ Get(settings, "DYNACONF_AFTER_GET_HOOKS", None) = [l |-> BothHooks]
    /\ Ran("configure_dynamic_settings")
    /\ "_registered_hooks" \notin DOMAIN result.value

----------------------------------------------------------------------------
(* Order of the stages of a pass of post (Spec).                           *)

PrimaryHooks ==
    {"configure_ldap", "configure_logging", "configure_keycloak", "configure_socialauth",
     "configure_cors", "configure_pulp_ansible", "configure_renderers",
     "configure_password_validators", "configure_api_base_path", "configure_legacy_roles"}

LateStages ==
    {"toggle_feature_flags", "configure_authentication_backends",
     "configure_authentication_classes"}

\* position of a stage that ran in the order of execution
Pos(stage) == FirstIndex(ran, stage)

\* C17: in every pass the aggregator configure_dab_required_settings runs after
\* all ten primary hooks, and toggle_feature_flags,
\* configure_authentication_backends and configure_authentication_classes run
\* only after it.
C17_AggregatorPosition ==
    /\ Ran("configure_dab_required_settings") =>
           \A p \in PrimaryHooks :
               Ran(p) /\ Pos(p) < Pos("configure_dab_required_settings")
    /\ \A l \in LateStages :
           Ran(l) => /\ Ran("configure_dab_required_settings")
                     /\ Pos("configure_dab_required_settings") < Pos(l)

C17_Witness ==
    /\ Ran("configure_authentication_classes")
    /\ Pos("configure_legacy_roles") = 10
    /\ Pos("configure_dab_required_settings") = 11
    /\ Pos("toggle_feature_flags") = 12
    /\ Pos("configure_authentication_backends") = 13

----------------------------------------------------------------------------
(* What is published once post has returned: the store post was called     *)
(* with, overlaid with the dict post returned.                             *)

Snapshot == result.value @@ settings

\* C18: whenever post returns with run_validate true, the published snapshot
\* satisfies both rules of validate: GALAXY_REQUIRE_SIGNATURE_FOR_APPROVAL is
\* False when GALAXY_REQUIRE_CONTENT_APPROVAL is False, and
\* AUTHENTICATION_BACKEND_PRESET is in the permitted set.
C18_PublishedSnapshotValid ==
    (result.returned /\ params.run_validate) =>
        /\ ~signature_rule_fails(Snapshot)
        /\ ~preset_rule_fails(Snapshot)

\* post returned on a store validate accepts, with the approval setting
\* turned off by a standard settings file and the signature setting still on
C18_Witness ==
    /\ result.returned /\ params.run_validate
    /\ Setting("GALAXY_REQUIRE_CONTENT_APPROVAL") = Bool(TRUE)
    /\ Setting("GALAXY_REQUIRE_SIGNATURE_FOR_APPROVAL") = Bool(TRUE)
    /\ Snapshot["GALAXY_REQUIRE_CONTENT_APPROVAL"] = Bool(FALSE)
    /\ Snapshot["GALAXY_REQUIRE_SIGNATURE_FOR_APPROVAL"] = Bool(TRUE)

----------------------------------------------------------------------------
(* Write-through of the set fetched from the table (SpecRead).  `last`     *)
(* is reset by every change of the cache, the table, the request or the    *)
(* readiness, so last.after_fill tells that the read before this one was   *)
(* a miss filled from the table with nothing changed in between.           *)

\* C19: when the applications are ready, a read of an allow-listed key that
\* finds the cache empty and the table non-empty leaves the fetched set in the
\* cache; the next such read, the table unchanged and the cache reachable,
\* is served by the cache and does not query the table.
C19_FetchedSetWrittenThrough ==
    /\ MissThenFill => cache = last.db
    /\ (last.after_fill /\ DynamicRead /\ last.lookup_error = NoError)
           => /\ last.cache = last.db
              /\ last.cache_read
              /\ ~last.db_read

C19_Witness ==
    /\ last.after_fill /\ DynamicRead /\ last.lookup_error = NoError
    /\ last.cache # <<>>
    /\ last.cache_read /\ ~last.db_read
    /\ cache = db

----------------------------------------------------------------------------
(* Reads made by several threads, each inside its own request or outside   *)
(* any (specification SpecRequests).  A read is two steps, the lookup of   *)
(* the static value and the run of the after-get hooks on it, so that the  *)
(* reads of two threads overlap.  A thread enters and leaves a request     *)
(* between its reads, never during one.                                    *)

\* a current request kept in one place for the whole process
get_current_request_of_process(th, t) ==
    IF \E u \in Threads : th[u].request # NoRequest
    THEN th[CHOOSE u \in Threads : th[u].request # NoRequest].request
    ELSE NoRequest

\* line 786: crum keeps the current request per thread
get_current_request(th, t) == th[t].request

\* the keys the threads read
ThreadKeys == {"CONTENT_ORIGIN", "TOKEN_SERVER", "API_ROOT"}

ThreadRequestBegin(t) ==
    /\ threads[t].pc # "hooks"
    /\ threads[t].request = NoRequest
    /\ \E h \in HeaderChoices :
          threads' = [threads EXCEPT ![t] = [IdleThread EXCEPT !.request = [headers |-> h]]]
    /\ UNCHANGED <<apps_ready, DYNAMIC_SETTINGS_SCHEMA, hooks, store, cache, db, request, last>>
    /\ UNCHANGED postVars

ThreadRequestEnd(t) ==
    /\ threads[t].pc # "hooks"
    /\ threads[t].request # NoRequest
    /\ threads' = [threads EXCEPT ![t] = IdleThread]
    /\ UNCHANGED <<apps_ready, DYNAMIC_SETTINGS_SCHEMA, hooks, store, cache, db, request, last>>
    /\ UNCHANGED postVars

\* settings.get(key): the value the store holds is found
ThreadGet(t) ==
    /\ threads[t].pc # "hooks"
    /\ \E key \in ThreadKeys :
          threads' = [threads EXCEPT ![t] =
                         [@ EXCEPT !.pc = "hooks", !.key = key,
                                   !.static = Get(store, Upper(key), None),
                                   !.value = Get(store, Upper(key), None),
                                   !.ready = FALSE,
                                   !.concurrent = \E u \in Threads \ {t} : threads[u].pc = "hooks"]]
    /\ UNCHANGED <<apps_ready, DYNAMIC_SETTINGS_SCHEMA, hooks, store, cache, db, request, last>>
    /\ UNCHANGED postVars

\* the after-get hooks run on the value found and the read returns
ThreadHooks(t) ==
    /\ threads[t].pc = "hooks"
    /\ LET out == run_hooks(hooks, store,
                            ReadOutcome(threads[t].value, cache, FALSE, FALSE, FALSE, NoError),
                            threads[t].key, apps_ready, db,
                            get_current_request(threads, t), "none")
       IN  /\ threads' = [threads EXCEPT ![t] =
                             [@ EXCEPT !.pc = "returned", !.value = out.value,
                                       !.ready = apps_ready]]
           /\ cache' = out.cache
    /\ UNCHANGED <<apps_ready, DYNAMIC_SETTINGS_SCHEMA, hooks, store, db, request, last>>
    /\ UNCHANGED postVars

NextRequests ==
    \/ AppsReady
    \/ \E t \in Threads : ThreadRequestBegin(t)
    \/ \E t \in Threads : ThreadRequestEnd(t)
    \/ \E t \in Threads : ThreadGet(t)
    \/ \E t \in Threads : ThreadHooks(t)

SpecRequests == InitRead /\ [][NextRequests]_vars

\* the read thread t has returned from went through the hostname hook
HostnameReadOf(t) ==
    /\ threads[t].pc = "returned"
    /\ threads[t].ready
    /\ Registered("alter_hostname_settings")
    /\ Upper(threads[t].key) \in ALLOWED_KEYS

\* C20: the request-derived value is local to the read: however the reads of
\* the threads interleave, a read made inside a request returns the base URL
\* of the headers of its own thread's request, a read made outside any
\* request returns the static value, and no read changes the store.
C20_RequestValueIsLocal ==
    /\ store = StaticStore
    /\ \A t \in Threads :
          HostnameReadOf(t) =>
              IF threads[t].request # NoRequest
              THEN threads[t].value =
                      Str(ProtoOf(threads[t].request) \o "://" \o HostOf(threads[t].request)
                          \o (IF Upper(threads[t].key) = "TOKEN_SERVER" THEN "/token/" ELSE ""))
              ELSE threads[t].value = StaticStore[Upper(threads[t].key)]

\* two overlapping reads of the same key, one inside a request and one
\* outside any, each returned with its own value
C20_Witness ==
    /\ HostnameReadOf("t1") /\ HostnameReadOf("t2")
    /\ threads["t2"].concurrent
    /\ threads["t1"].key = "CONTENT_ORIGIN" /\ threads["t2"].key = "CONTENT_ORIGIN"
    /\ threads["t1"].request # NoRequest /\ threads["t2"].request = NoRequest
    /\ threads["t1"].value = Str("https://example.org")
    /\ threads["t2"].value = Str("static CONTENT_ORIGIN")

----------------------------------------------------------------------------
(* The published store under reads (SpecRead).                             *)

----------------------------------------------------------------------------
(* The keys the two consolidation steps settle (Spec).                     *)

AuthenticationKeys ==
    {"AUTHENTICATION_BACKENDS", "GALAXY_AUTHENTICATION_CLASSES",
     "ANSIBLE_AUTHENTICATION_CLASSES", "REST_FRAMEWORK__DEFAULT_AUTHENTICATION_CLASSES"}

\* what post's dict carries under a list key: whether it is set, and its items
Carried(d, h, k) ==
    [present |-> k \in DOMAIN d,
     items |-> IF k \in DOMAIN d /\ IsRef(d[k]) THEN h[d[k].ref] ELSE <<>>]

\* C22: once configure_authentication_classes has run, no later stage of post
\* (the resource-server flag, configure_dynamic_settings, validate,
\* configure_dynaconf_cli) changes what post's dict carries for
\* AUTHENTICATION_BACKENDS and the three authentication class lists, nor the
\* GALAXY_AUTH_KEYCLOAK_ENABLED flag the class list was derived from.
C22_AuthenticationKeysSettled ==
    [][Ran("configure_authentication_classes") =>
           /\ \A k \in AuthenticationKeys : Carried(data', heap', k) = Carried(data, heap, k)
           /\ Get(data', "GALAXY_AUTH_KEYCLOAK_ENABLED", None)
                  = Get(data, "GALAXY_AUTH_KEYCLOAK_ENABLED", None)]_vars

\* post returned after the four late stages ran on a dict that carried the
\* keycloak flag and the four keys
C22_Witness ==
    /\ pc = "returned"
    /\ Ran("resource_server") /\ Ran("configure_dynamic_settings") /\ Ran("validate")
    /\ Ran("configure_dynaconf_cli")
    /\ Get(data, "GALAXY_AUTH_KEYCLOAK_ENABLED", None) = Bool(TRUE)
    /\ \A k \in AuthenticationKeys : Carried(data, heap, k).items # <<>>

----------------------------------------------------------------------------
(* configure_authentication_backends on its own (specification             *)
(* SpecBackends): the default list of the store and the list contributed   *)
(* by earlier hooks are drawn from the bounded lists over BackendNames,    *)
(* the preset from the names AUTHENTICATION_BACKEND_PRESET takes.          *)

MaxBackends == 2

BackendNames == {ModelBackend, KeycloakOAuth2, prefix_backend, dynaconf_merge}

BackendPresets == {"ldap", "keycloak", "local"}

InitBackends ==
    /\ \E defaults \in BoundedSeq(BackendNames, MaxBackends),
          contributed \in BoundedSeq(BackendNames, MaxBackends),
          inData \in BOOLEAN, preset \in BackendPresets :
          /\ settings = ("AUTHENTICATION_BACKENDS" :> Ref("settings.AUTHENTICATION_BACKENDS"))
                        @@ ("AUTHENTICATION_BACKEND_PRESET" :> Str(preset))
                        @@ ("AUTHENTICATION_BACKEND_PRESETS_DATA" :>
                                [m |-> [n \in {"ldap", "keycloak"} |-> "settings.presets." \o n]])
          /\ data = (IF inData
                     THEN "AUTHENTICATION_BACKENDS" :> Ref("data.AUTHENTICATION_BACKENDS")
                     ELSE EmptyDict)
                    @@ ("dynaconf_merge" :> Bool(FALSE))
          /\ heap = (IF inData THEN "data.AUTHENTICATION_BACKENDS" :> contributed ELSE EmptyDict)
                    @@ ("settings.AUTHENTICATION_BACKENDS" :> defaults)
                    @@ [a \in {"settings.presets." \o n : n \in {"ldap", "keycloak"}} |->
                           PresetBackends(CHOOSE n \in {"ldap", "keycloak"} :
                                              "settings.presets." \o n = a)]
    /\ pc = "configure_authentication_backends"
    /\ result = NoResult
    /\ error = NoError
    /\ seen = EmptyDict
    /\ ran = <<>>
    /\ classes_in = <<>>
    /\ first_result = NoFirstResult
    /\ params = [run_dynamic |-> FALSE, run_validate |-> FALSE]
    /\ env = InitialEnv("none", EmptyDict)
    /\ ReadIdle

NextBackends == AuthenticationBackends

SpecBackends == InitBackends /\ [][NextBackends]_vars

\* the three lists the step started from, and the list it left in post's dict
BackendsRan == Ran("configure_authentication_backends") /\ error = NoError
DefaultBackends == seen["configure_authentication_backends.settings"]
ContributedBackends == seen["configure_authentication_backends"]
PresetItems ==
    IF preset_list(settings, heap) # None THEN heap[preset_list(settings, heap).ref] ELSE <<>>
ResolvedBackends == heap[data["AUTHENTICATION_BACKENDS"].ref]

\* [x for x in incoming if x not in existing]
Novel(existing, incoming) ==
    LET novel(x) == \A i \in DOMAIN existing : existing[i] # x IN SelectSeq(incoming, novel)

\* defaults, then novel contributed items, then novel preset items, then the
\* prefixed user backend when absent
BackendsInOrder ==
    LET a == DefaultBackends
        b == a \o Novel(a, ContributedBackends)
        c == b \o Novel(b, PresetItems)
    IN  c \o (IF \E i \in DOMAIN c : c[i] = prefix_backend THEN <<>> ELSE <<prefix_backend>>)

\* C23 as stated: the list is the defaults, then the contributed backends
\* not already present, then the preset's backends not already present,
\* then the prefixed user backend if absent; existing items keep their
\* order and nothing is added that the list already holds.
C23_BackendsInStatedOrder ==
    BackendsRan =>
        /\ ResolvedBackends = BackendsInOrder
        /\ \A x \in BackendNames :
               Count(ResolvedBackends, x) <= IF Count(DefaultBackends, x) > 0
                                             THEN Count(DefaultBackends, x) ELSE 1

\* C23: the list is built in the stated order, an item being added when the
\* list did not hold it before the step that adds it (two equal items of one
\* contributed list are both added); if the merge token then occurs more
\* than once, every occurrence is removed and one token is appended last.
C23_BackendsInOrderTokenLast ==
    BackendsRan =>
        ResolvedBackends =
            IF Count(BackendsInOrder, dynaconf_merge) > 1
            THEN Append(Without(BackendsInOrder, dynaconf_merge), dynaconf_merge)
            ELSE BackendsInOrder

\* a contributed item already among the defaults was skipped, a novel one
\* added, the preset's novel items added after it, the prefixed backend last
C23_Witness ==
    /\ BackendsRan
    /\ DefaultBackends = <<ModelBackend>>
    /\ ContributedBackends = <<ModelBackend, KeycloakOAuth2>>
    /\ PresetItems = <<"galaxy_ng.app.auth.ldap.PrefixedLDAPBackend", ModelBackend, dynaconf_merge>>
    /\ ResolvedBackends = <<ModelBackend, KeycloakOAuth2,
                            "galaxy_ng.app.auth.ldap.PrefixedLDAPBackend", dynaconf_merge,
                            prefix_backend>>

\* C24: after configure_authentication_backends, whatever the lists it
\* started from, AUTHENTICATION_BACKENDS holds the prefixed user backend and
\* nothing but merge tokens follows its first occurrence.
C24_PrefixedBackendTrailing ==
    BackendsRan =>
        /\ Contains(ResolvedBackends, prefix_backend)
        /\ \A i \in DOMAIN ResolvedBackends :
               i > FirstIndex(ResolvedBackends, prefix_backend)
                   => ResolvedBackends[i] \in {prefix_backend, dynaconf_merge, dynaconf_merge_unique}

\* the defaults already named the prefixed backend, ahead of another backend
C24_Witness ==
    /\ BackendsRan
    /\ DefaultBackends = <<prefix_backend, ModelBackend>>
    /\ ResolvedBackends = <<prefix_backend, ModelBackend>>

----------------------------------------------------------------------------
(* The entry injected into the secondary store (Spec).                     *)

\* INSTALLED_APPS as post's dict carries it
CarriedApps == Carried(data, heap, "INSTALLED_APPS").items

----------------------------------------------------------------------------
(* The three authentication class lists of post's result (Spec).           *)

ReturnedClasses(k) == Carried(result.value, heap, k).items

\* C26: whenever post's result carries a non-empty
\* GALAXY_AUTHENTICATION_CLASSES, the lists under ANSIBLE_AUTHENTICATION_CLASSES,
\* GALAXY_AUTHENTICATION_CLASSES and REST_FRAMEWORK__DEFAULT_AUTHENTICATION_CLASSES
\* are equal and start with the session class, also when configure_keycloak,
\* configure_socialauth or the aggregator set the galaxy classes before.
C26_ClassListsAgree ==
    (result.returned /\ ReturnedClasses("GALAXY_AUTHENTICATION_CLASSES") # <<>>) =>
        /\ ReturnedClasses("ANSIBLE_AUTHENTICATION_CLASSES")
               = ReturnedClasses("GALAXY_AUTHENTICATION_CLASSES")
        /\ ReturnedClasses("REST_FRAMEWORK__DEFAULT_AUTHENTICATION_CLASSES")
               = ReturnedClasses("GALAXY_AUTHENTICATION_CLASSES")
        /\ ReturnedClasses("GALAXY_AUTHENTICATION_CLASSES")[1] = galaxy_session

\* post returned with keycloak enabled, the class list the step started from
\* not starting with the session class
C26_Witness ==
    /\ result.returned
    /\ Get(result.value, "GALAXY_AUTH_KEYCLOAK_ENABLED", None) = Bool(TRUE)
    /\ classes_in # <<>> /\ classes_in[1] # galaxy_session
    /\ Contains(ReturnedClasses("GALAXY_AUTHENTICATION_CLASSES"), KeycloakBasicAuth)
    /\ ReturnedClasses("REST_FRAMEWORK__DEFAULT_AUTHENTICATION_CLASSES")[1] = galaxy_session

----------------------------------------------------------------------------
(* configure_dynaconf_cli and the settings object it is given (Spec).      *)

\* the objects of the settings object: the lists of its store and its metadata
SettingsObjects == DOMAIN SettingsListsBefore \cup DOMAIN InitialMetadata

\* C27: configure_dynaconf_cli changes neither the store nor the load
\* metadata (_loaded_files, _loaded_hooks, _loaded_by_loaders, _loaded_envs)
\* of the settings object it is given.
C27_SettingsObjectUntouched ==
    [][pc = "configure_dynaconf_cli" =>
           /\ settings' = settings
           /\ \A a \in SettingsObjects \cap DOMAIN heap : heap'[a] = heap[a]]_vars

\* post returned, and the files of the secondary store are listed in the
\* _loaded_files of the settings object post was called with
C27_Witness ==
    /\ pc = "returned" /\ Ran("configure_dynaconf_cli")
    /\ "CLI_DYNACONF" \in DOMAIN result.value
    /\ heap["settings._loaded_files"] # InitialMetadata["settings._loaded_files"]
    /\ Contains(heap["settings._loaded_files"], heap["dab._loaded_files"][1])
    /\ Contains(heap["settings._loaded_hooks"], "galaxy_ng.app.dynaconf_hooks")

----------------------------------------------------------------------------
(* Two passes of post on one settings object (specification SpecTwice):    *)
(* the caller keeps the dict of the first pass, merges nothing, and calls  *)
(* post again.  The lists of the first dict are kept by value, as they     *)
(* were when the first pass returned.                                      *)

\* the keys whose lists the two results are compared on
RepeatedKeys ==
    {"AUTHENTICATION_BACKENDS", "GALAXY_AUTHENTICATION_CLASSES",
     "ANSIBLE_AUTHENTICATION_CLASSES", "REST_FRAMEWORK__DEFAULT_AUTHENTICATION_CLASSES",
     "MIDDLEWARE", "REST_FRAMEWORK__DEFAULT_RENDERER_CLASSES"}

\* CONTENT_ORIGIN of an on-premise and of a community deployment
OriginChoices == {"https://hub.example.com", "https://galaxy.ansible.com"}

InitTwice ==
    /\ \E kc \in BOOLEAN, gh \in BOOLEAN, classes \in ClassChoices,
          preset \in {"local", "keycloak"}, origin \in OriginChoices,
          dyn \in DynamicChoices, run_validate \in BOOLEAN :
          /\ settings = ("CONTENT_ORIGIN" :> Str(origin))
                        @@ InitialSettings(kc, gh, FALSE, classes, preset, {"ldap", "keycloak"},
                                           TRUE, FALSE, "none", dyn[2])
          /\ heap = InitialMetadata @@ InitialHeap(classes, {"ldap", "keycloak"})
          /\ env = InitialEnv("none", EmptyDict)
          /\ params = [run_dynamic |-> dyn[1], run_validate |-> run_validate]
    /\ PostStart
    /\ ReadIdle

\* the caller calls post(settings) again: line 64 builds a new dict
PostAgain ==
    /\ pc = "returned"
    /\ ~first_result.returned
    /\ first_result' = [returned |-> TRUE,
                        lists |-> [k \in RepeatedKeys |-> Carried(result.value, heap, k)],
                        objects |-> [a \in DOMAIN SettingsListsBefore |-> heap[a]]]
    /\ data' = ("dynaconf_merge" :> Bool(FALSE))
    /\ pc' = "configure_ldap"
    /\ result' = NoResult
    /\ seen' = EmptyDict
    /\ ran' = <<>>
    /\ classes_in' = <<>>
    /\ UNCHANGED <<settings, heap, error, params, env>>
    /\ UNCHANGED readVars

NextTwice == Next \/ PostAgain

SpecTwice == InitTwice /\ [][NextTwice]_vars

\* C28: a second pass of post on the same settings object returns, for
\* AUTHENTICATION_BACKENDS, the three authentication class lists, MIDDLEWARE
\* and REST_FRAMEWORK__DEFAULT_RENDERER_CLASSES, lists equal to those of the
\* first pass, and leaves every list of the settings as the first pass left it.
C28_SecondPassEqualsFirst ==
    (first_result.returned /\ result.returned) =>
        /\ \A k \in RepeatedKeys : Carried(result.value, heap, k) = first_result.lists[k]
        /\ \A a \in DOMAIN SettingsListsBefore : heap[a] = first_result.objects[a]

\* the second pass of a community deployment returned a renderer list with
\* the browsable renderer twice, the first pass having returned it once
C28_Witness ==
    /\ first_result.returned /\ result.returned
    /\ Count(first_result.lists["REST_FRAMEWORK__DEFAULT_RENDERER_CLASSES"].items,
             CustomBrowsableAPIRenderer) = 1
    /\ Count(Carried(result.value, heap, "REST_FRAMEWORK__DEFAULT_RENDERER_CLASSES").items,
             CustomBrowsableAPIRenderer) = 2

====
